---- MODULE Spec2Model ----
(***************************************************************************)
(* Model of the two layout engines of the profile site (src/src/App.tsx):  *)
(*   - the temporal axis and the timeline board (ExperienceTimelineBoard,  *)
(*     quarterIndexFromModel, quarterPositionFromModel, addDays);          *)
(*   - the skill-tree packing engine (buildRoadmapSkillTreeLayout and its  *)
(*     helpers).                                                           *)
(*                                                                         *)
(* Numbers.  The code computes in IEEE doubles.  The timeline quantities   *)
(* are modelled exactly, as rationals num/den (a quarter position has the  *)
(* denominator 3 * daysInMonth).  The skill tree is modelled in fixed      *)
(* point: a length is an integer number of 1/Unit px.                      *)
(***************************************************************************)
EXTENDS Integers, Sequences, FiniteSets, TLC

VARIABLES
    \* ---- environment shared by the date functions and the board
    tzWest,        \* TRUE when the local time zone is behind UTC
    \* ---- quarterIndexFromModel / quarterPositionFromModel applied to one event
    evStart,       \* item.start, an ISO date string 'YYYY-MM-DD'
    evEnd,         \* item.end
    argMinYear,    \* the minYear argument
    posDone,       \* the positions of the event have been computed
    idxDone,       \* the quarter indexes of the event have been computed
    calc,          \* the computed values
    \* ---- ExperienceTimelineBoard
    items,         \* the items prop: a sequence of [id, start, end]
    now,           \* new Date(), as a local calendar date
    mounted,       \* the mount effects have run
    mode,          \* useState<TimelineMode>
    quarterWidth,  \* useState(58)
    scrollLeft,    \* useState(0), synced from the scroll container
    viewportWidth, \* useState(0), synced from the scroll container
    clientWidth,   \* scrollRef.current.clientWidth
    nodeScroll,    \* [left, top]: the scroll container's scroll position
    raf,           \* pending requestAnimationFrame callbacks
    memo,          \* the useMemo values: ordered, baseRange, model, nearestEventRowIndex
    \* ---- buildRoadmapSkillTreeLayout
    groups,        \* the groups argument: a sequence of [area, tasks]
    pc,            \* [stage, zone]: the statement of the layout pass that runs next
    areas,         \* areas["upper"] is the array areas, areas["root"] the array rootAreas
    topics,        \* topics["upper"] is the array topics, topics["root"] the array rootTopics
    loop,          \* the local variables of the loop that is running
    viewBox,       \* the view window computed by the pass
    returned,      \* the layouts returned by the passes completed so far
    \* ---- SreMiniProjectPage
    markdown,      \* useState('')
    error,         \* useState<string | null>(null): <<>> is null, <<m>> the message m
    loading,       \* useState(true)
    request,       \* [phase, status, text]: the promise chain of the fetch of the effect
    visits         \* the number of times the page has been mounted

dateVars == <<evStart, evEnd, argMinYear, posDone, idxDone, calc>>

boardVars == <<items, now, mounted, mode, quarterWidth, scrollLeft, viewportWidth,
               clientWidth, nodeScroll, raf, memo>>

treeVars == <<groups, pc, areas, topics, loop, viewBox, returned>>

pageVars == <<markdown, error, loading, request, visits>>

vars == <<tzWest, dateVars, boardVars, treeVars, pageVars>>

\* Years the modelled date strings are drawn from: BaseYear .. BaseYear + YearSpan.
BaseYear == 2019
YearSpan == 1

(***************************************************************************)
(* Calendar: what the JavaScript Date object does for the calls the code   *)
(* makes.  A Date is modelled by its local calendar fields                 *)
(* [year, month (0-based, as getMonth), date (1-based, as getDate)].       *)
(***************************************************************************)
IsLeapYear(y) == (y % 4 = 0 /\ y % 100 # 0) \/ y % 400 = 0

\* new Date(year, month + 1, 0).getDate(): the number of days of the month
daysInMonth(y, m) ==
    IF m = 1 THEN (IF IsLeapYear(y) THEN 29 ELSE 28)
    ELSE IF m \in {3, 5, 8, 10} THEN 30
    ELSE 31

MkDate(y, m, d) == [year |-> y, month |-> m, date |-> d]

\* setDate(getDate() + 1) with the Date object's roll-over into the next month/year
NextDay(dt) ==
    IF dt.date < daysInMonth(dt.year, dt.month) THEN MkDate(dt.year, dt.month, dt.date + 1)
    ELSE IF dt.month < 11 THEN MkDate(dt.year, dt.month + 1, 1)
    ELSE MkDate(dt.year + 1, 0, 1)

PrevDay(dt) ==
    IF dt.date > 1 THEN MkDate(dt.year, dt.month, dt.date - 1)
    ELSE IF dt.month > 0 THEN MkDate(dt.year, dt.month - 1, daysInMonth(dt.year, dt.month - 1))
    ELSE MkDate(dt.year - 1, 11, 31)

\* function addDays(date, days), for the only call the code makes: days = 1
addDays(dt, days) == IF days = 1 THEN NextDay(dt) ELSE dt

\* new Date('YYYY-MM-DD'): a date-only ISO string is midnight UTC; the getters
\* getFullYear/getMonth/getDate read it in local time, which is the previous
\* calendar day in a zone behind UTC and the same day otherwise.
ParseDate(s, west) ==
    IF west THEN PrevDay(MkDate(s.y, s.m - 1, s.d)) ELSE MkDate(s.y, s.m - 1, s.d)

\* a.start.localeCompare(b.start) <= 0 on well-formed ISO date strings
IsoLe(a, b) ==
    \/ a.y < b.y
    \/ a.y = b.y /\ a.m < b.m
    \/ a.y = b.y /\ a.m = b.m /\ a.d <= b.d

(***************************************************************************)
(* Rationals num/den with den > 0.                                         *)
(***************************************************************************)
Rat(n, d) == [n |-> n, d |-> d]
RLe(a, b) == a.n * b.d <= b.n * a.d
RLt(a, b) == a.n * b.d < b.n * a.d
REq(a, b) == a.n * b.d = b.n * a.d
RFloor(a) == a.n \div a.d
RIsInt(a, k) == a.n = k * a.d

(***************************************************************************)
(* Temporal axis functions.                                                *)
(***************************************************************************)
quarterIndexFromModel_OneBasedMonth(dt, minYear) ==
    (dt.year - minYear) * 4 + ((dt.month + 1) \div 3)

quarterIndexFromModel(dt, minYear) ==
    (dt.year - minYear) * 4 + (dt.month \div 3)

quarterPositionFromModel_FixedMonthLength(dt, minYear) ==
    LET monthsFromMin == (dt.year - minYear) * 12 + dt.month
    IN  Rat(monthsFromMin * 28 + (dt.date - 1), 3 * 28)

\* (monthsFromMin + (date - 1) / daysInMonth) / 3
\*   = (monthsFromMin * daysInMonth + date - 1) / (3 * daysInMonth)
quarterPositionFromModel(dt, minYear) ==
    LET monthsFromMin == (dt.year - minYear) * 12 + dt.month
        dim == daysInMonth(dt.year, dt.month)
    IN  Rat(monthsFromMin * dim + (dt.date - 1), 3 * dim)

(***************************************************************************)
(* Inputs of the date functions.                                           *)
(***************************************************************************)
Years == BaseYear .. (BaseYear + YearSpan)

DayChoices(y, m) ==
    LET dim == daysInMonth(y, m - 1) IN {1, 2, 15, dim - 1, dim}

IsoDates == UNION { UNION { { [y |-> y, m |-> m, d |-> d] : d \in DayChoices(y, m) }
                            : m \in 1..12 } : y \in Years }

MinYears == (BaseYear - 1) .. (BaseYear + 1)

\* row.totalQuarters = 0: the row of the event is not computed yet
NoCalc ==
    [stage |-> "dates", startPos |-> Rat(0, 1), endPos |-> Rat(0, 1), startIdx |-> 0, endIdx |-> 0,
     row |-> [totalQuarters |-> 0, den |-> 1, clampedStart |-> 0, clampedEnd |-> 0, rendered |-> FALSE]]

NoMemo ==
    [ordered |-> <<>>,
     baseRange |-> [minYear |-> BaseYear, maxYear |-> BaseYear],
     model |-> [minYear |-> BaseYear, maxYear |-> BaseYear, totalQuarters |-> 4],
     nearestEventRowIndex |-> -1]

\* no layout pass of the skill tree is running
\* the local variables of a call of the packing, before it starts
NoLoop ==
    [idx |-> 0, j |-> 0, iteration |-> 0, moved |-> FALSE, ordered |-> <<>>, bounds |-> <<>>,
     occupied |-> <<>>, intervals |-> [s \in {-1, 1} |-> <<>>]]

TreeIdle ==
    /\ groups = <<>>
    /\ pc = [stage |-> "done", zone |-> "root"]
    /\ areas = [z \in {"upper", "root"} |-> <<>>]
    /\ topics = [z \in {"upper", "root"} |-> <<>>]
    /\ loop = NoLoop
    /\ viewBox = [x |-> 0, y |-> 0, width |-> 0, height |-> 0]
    /\ returned = <<>>

\* the board is idle while the date functions are exercised
BoardIdle ==
    /\ items = <<>>
    /\ now = MkDate(BaseYear, 0, 1)
    /\ mounted = FALSE
    /\ mode = "fit"
    /\ quarterWidth = 58
    /\ scrollLeft = 0
    /\ viewportWidth = 0
    /\ clientWidth = 0
    /\ nodeScroll = [left |-> 0, top |-> 0]
    /\ raf = <<>>
    /\ memo = NoMemo

DatesInit ==
    /\ markdown = "" /\ error = <<>> /\ loading = TRUE /\ visits = 0
    /\ request = [phase |-> "none", status |-> 0, text |-> ""]
    /\ BoardIdle
    /\ TreeIdle
    /\ tzWest \in BOOLEAN
    /\ evStart \in IsoDates
    /\ evEnd \in { e \in IsoDates : IsoLe(evStart, e) }
    /\ argMinYear \in MinYears
    /\ posDone = FALSE
    /\ idxDone = FALSE
    /\ calc = NoCalc

\* startPos / endPos of one event, as the row loop computes them
ComputePositions ==
    /\ ~posDone
    /\ posDone' = TRUE
    /\ calc' = [calc EXCEPT
                  !.startPos = quarterPositionFromModel(ParseDate(evStart, tzWest), argMinYear),
                  !.endPos = quarterPositionFromModel(addDays(ParseDate(evEnd, tzWest), 1), argMinYear)]
    /\ UNCHANGED <<tzWest, pageVars, evStart, evEnd, argMinYear, idxDone, boardVars, treeVars>>

\* the quarter indexes of one event, as the jump effect computes them
ComputeIndexes ==
    /\ ~idxDone
    /\ idxDone' = TRUE
    /\ calc' = [calc EXCEPT
                  !.startIdx = quarterIndexFromModel(ParseDate(evStart, tzWest), argMinYear),
                  !.endIdx = quarterIndexFromModel(ParseDate(evEnd, tzWest), argMinYear)]
    /\ UNCHANGED <<tzWest, pageVars, evStart, evEnd, argMinYear, posDone, boardVars, treeVars>>

(***************************************************************************)
(* ExperienceTimelineBoard: derived values (useMemo) of the component.     *)
(***************************************************************************)
Min(a, b) == IF a <= b THEN a ELSE b
Max(a, b) == IF a >= b THEN a ELSE b

RECURSIVE InsertByStart(_, _)
\* insert item x into the sorted sequence s, after every element whose start is <= x.start
InsertByStart(s, x) ==
    IF s = <<>> THEN <<x>>
    ELSE IF IsoLe(Head(s).start, x.start) THEN <<Head(s)>> \o InsertByStart(Tail(s), x)
    ELSE <<x>> \o s

RECURSIVE SortByStart(_)
\* items.slice().sort((a, b) => a.start.localeCompare(b.start)): a stable sort of a copy
SortByStart(s) ==
    IF s = <<>> THEN <<>>
    ELSE InsertByStart(SortByStart(SubSeq(s, 1, Len(s) - 1)), s[Len(s)])

ordered == memo.ordered

SeqMin(f) == CHOOSE v \in { f[i] : i \in DOMAIN f } : \A i \in DOMAIN f : v <= f[i]
SeqMax(f) == CHOOSE v \in { f[i] : i \in DOMAIN f } : \A i \in DOMAIN f : v >= f[i]

\* the local years of the earliest start and of the latest end
baseRangeOf(ord, west) ==
    [minYear |-> SeqMin([i \in DOMAIN ord |-> ParseDate(ord[i].start, west).year]),
     maxYear |-> SeqMax([i \in DOMAIN ord |-> ParseDate(ord[i].end, west).year])]

baseRange == memo.baseRange

AxisPad == 20

\* { minYear, maxYear, totalQuarters: (maxYear - minYear + 1) * 4 }
axisOf_OffByOne(minYear, maxYear) ==
    [minYear |-> minYear, maxYear |-> maxYear, totalQuarters |-> (maxYear - minYear) * 4]

axisOf(minYear, maxYear) ==
    [minYear |-> minYear, maxYear |-> maxYear, totalQuarters |-> (maxYear - minYear + 1) * 4]

modelOf_NoPadding(base, currentYear) ==
    axisOf(Min(base.minYear, currentYear), Max(base.maxYear, currentYear))

modelOf(base, currentYear) ==
    axisOf(Min(base.minYear, currentYear) - AxisPad, Max(base.maxYear, currentYear) + AxisPad)

model == memo.model

dataQuarters == (baseRange.maxYear - baseRange.minYear + 1) * 4

RowHeight == 42

rowsHeight == Len(ordered) * RowHeight + 20

currentQuarterIndex == quarterIndexFromModel(now, model.minYear)

canvasWidth == model.totalQuarters * quarterWidth

\* a date string that Date cannot parse: getTime() and getFullYear() give NaN
InvalidDate == [y |-> 0, m |-> 0, d |-> 0]

\* distance from now to the interval [startPos, endPos] of an item, a rational;
\* no comparison with the NaN position of an invalid end is true
RowDistance(item, today, west, minYear) ==
    LET nowPos == quarterPositionFromModel(today, minYear)
        startPos == quarterPositionFromModel(ParseDate(item.start, west), minYear)
        endPos == quarterPositionFromModel(addDays(ParseDate(item.end, west), 1), minYear)
    IN  IF RLt(nowPos, startPos) THEN Rat(startPos.n * nowPos.d - nowPos.n * startPos.d, startPos.d * nowPos.d)
        ELSE IF item.end # InvalidDate /\ RLt(endPos, nowPos) THEN Rat(nowPos.n * endPos.d - endPos.n * nowPos.d, nowPos.d * endPos.d)
        ELSE Rat(0, 1)

RECURSIVE NearestFrom_LastTie(_, _, _, _, _, _, _)
NearestFrom_LastTie(ord, today, west, minYear, i, best, bestDist) ==
    IF i > Len(ord) THEN best
    ELSE LET dist == RowDistance(ord[i], today, west, minYear)
         IN  IF best = -1 \/ RLe(dist, bestDist)
             THEN NearestFrom_LastTie(ord, today, west, minYear, i + 1, i - 1, dist)
             ELSE NearestFrom_LastTie(ord, today, west, minYear, i + 1, best, bestDist)

RECURSIVE NearestFrom(_, _, _, _, _, _, _)
\* the forEach of nearestEventRowIndex from row i on: best is -1 (distance infinite) or a row
NearestFrom(ord, today, west, minYear, i, best, bestDist) ==
    IF i > Len(ord) THEN best
    ELSE LET dist == RowDistance(ord[i], today, west, minYear)
         IN  IF best = -1 \/ RLt(dist, bestDist)
             THEN NearestFrom(ord, today, west, minYear, i + 1, i - 1, dist)
             ELSE NearestFrom(ord, today, west, minYear, i + 1, best, bestDist)

nearestEventRowIndexOf(ord, today, west, minYear) ==
    NearestFrom(ord, today, west, minYear, 1, -1, Rat(0, 1))

nearestEventRowIndex == memo.nearestEventRowIndex

\* the values the component memoizes for its props
MemoOf(its, today, west) ==
    LET ord == SortByStart(its)
        base == baseRangeOf(ord, west)
        mdl == modelOf(base, today.year)
    IN  [ordered |-> ord, baseRange |-> base, model |-> mdl,
         nearestEventRowIndex |-> nearestEventRowIndexOf(ord, today, west, mdl.minYear)]

(***************************************************************************)
(* The row loop of the render: the geometry of one event bar.  Pixel       *)
(* values of a row are rationals over the common denominator               *)
(* den = 3 * daysInMonth(start) * daysInMonth(end + 1 day); the record     *)
(* holds the numerators.                                                   *)
(***************************************************************************)
MinBarWidth == 12
LabelWidth == 180

hasPastOverflowOf_NoInset(rawLeftPx, den) == rawLeftPx < scrollLeft * den

hasPastOverflowOf(rawLeftPx, den) == rawLeftPx < (scrollLeft + 2) * den

hasFutureOverflowOf(rawRightPx, den) == rawRightPx > (scrollLeft + viewportWidth - 2) * den

hasViewportOverlapOf_RightOnly(rawLeftPx, rawRightPx, den) ==
    rawLeftPx < (scrollLeft + viewportWidth) * den

hasViewportOverlapOf(rawLeftPx, rawRightPx, den) ==
    rawRightPx > scrollLeft * den /\ rawLeftPx < (scrollLeft + viewportWidth) * den

\* clampedStart, clampedEnd and the test before `return null`
clampedOf_Unclamped(sP, eP, total) ==
    [clampedStart |-> sP, clampedEnd |-> eP,
     rendered |-> ~(eP <= 0 \/ sP >= total \/ eP <= sP)]

clampedOf(sP, eP, total) ==
    LET clampedStart == Max(sP, 0)
        clampedEnd == Min(eP, total)
    IN  [clampedStart |-> clampedStart, clampedEnd |-> clampedEnd,
         rendered |-> ~(clampedEnd <= 0 \/ clampedStart >= total \/ clampedEnd <= clampedStart)]

Bar(idx) ==
    LET item == ordered[idx]
        startPos == quarterPositionFromModel(ParseDate(item.start, tzWest), model.minYear)
        endPos == quarterPositionFromModel(addDays(ParseDate(item.end, tzWest), 1), model.minYear)
        den == (startPos.d * endPos.d) \div 3
        sP == startPos.n * (endPos.d \div 3)
        eP == endPos.n * (startPos.d \div 3)
        clamped == clampedOf(sP, eP, model.totalQuarters * den)
        clampedStart == clamped.clampedStart
        clampedEnd == clamped.clampedEnd
        rawLeftPx == sP * quarterWidth + 2 * den
        rawRightPx == eP * quarterWidth - 2 * den
        leftPx == clampedStart * quarterWidth + 2 * den
        widthPx == Max((clampedEnd - clampedStart) * quarterWidth - 4 * den, MinBarWidth * den)
        hasPastOverflow == hasPastOverflowOf(rawLeftPx, den)
        hasFutureOverflow == hasFutureOverflowOf(rawRightPx, den)
        hasViewportOverlap == hasViewportOverlapOf(rawLeftPx, rawRightPx, den)
        minLabelX == (scrollLeft + (IF hasPastOverflow THEN 34 ELSE 10)) * den
        maxLabelX == Max(minLabelX, (scrollLeft + viewportWidth - LabelWidth) * den)
        naturalLabelX == leftPx + 10 * den
        labelX == Min(Max(naturalLabelX, minLabelX), maxLabelX)
        labelLeft == Max(10 * den, labelX - leftPx)
    IN  [rendered |-> clamped.rendered,
         den |-> den,
         startPos |-> sP, endPos |-> eP,
         rawLeftPx |-> rawLeftPx, rawRightPx |-> rawRightPx,
         leftPx |-> leftPx, widthPx |-> widthPx,
         topPx |-> (idx - 1) * RowHeight + 8,
         hasPastOverflow |-> hasPastOverflow,
         hasFutureOverflow |-> hasFutureOverflow,
         hasViewportOverlap |-> hasViewportOverlap,
         labelLeft |-> labelLeft]

\* what the row returns: null, or the arrows, the pill and (inside the pill) the label
Row(idx) ==
    LET b == Bar(idx)
    IN  [rowIndex |-> idx - 1,
         pill |-> b.rendered,
         isPastOverflow |-> b.rendered /\ b.hasPastOverflow,
         isFutureOverflow |-> b.rendered /\ b.hasFutureOverflow,
         isLabelVisible |-> b.rendered /\ b.hasViewportOverlap]

\* the clamped edges of one event on an axis of one or two years from argMinYear on
ComputeClamp ==
    /\ posDone
    /\ calc.row.totalQuarters = 0
    /\ \E maxYear \in argMinYear .. (argMinYear + 1) :
           LET totalQuarters == axisOf(argMinYear, maxYear).totalQuarters
               den == calc.startPos.d * calc.endPos.d
               clamped == clampedOf(calc.startPos.n * calc.endPos.d, calc.endPos.n * calc.startPos.d,
                                    totalQuarters * den)
           IN  calc' = [calc EXCEPT !.row = [totalQuarters |-> totalQuarters, den |-> den,
                                             clampedStart |-> clamped.clampedStart,
                                             clampedEnd |-> clamped.clampedEnd,
                                             rendered |-> clamped.rendered]]
    /\ UNCHANGED <<tzWest, pageVars, evStart, evEnd, argMinYear, posDone, idxDone, boardVars, treeVars>>

DatesNext == ComputePositions \/ ComputeIndexes \/ ComputeClamp

SpecDates == DatesInit /\ [][DatesNext]_vars

(***************************************************************************)
(* ExperienceTimelineBoard: handlers.                                      *)
(***************************************************************************)
MaxRaf == 1
StickyHeight == 64

\* the browser keeps a scroll offset inside the scrollable range
ClampScroll(left, width) == Max(0, Min(left, Max(0, model.totalQuarters * width - clientWidth)))

\* scrollToQuarter(quarter, width) for quarter = twiceQuarter / 2; the offset in whole pixels
scrollTarget(twiceQuarter, width) ==
    Max((twiceQuarter * width - clientWidth) \div 2, 0)

\* twice the quarter at the middle of the data: start + end of the two index calls
dataMidTwice ==
    quarterIndexFromModel(ParseDate([y |-> baseRange.minYear, m |-> 1, d |-> 1], tzWest), model.minYear)
    + quarterIndexFromModel(ParseDate([y |-> baseRange.maxYear, m |-> 12, d |-> 31], tzWest), model.minYear)

\* syncScroll: copy the container's scroll offset and width into the state
syncScroll ==
    /\ scrollLeft' = nodeScroll'.left
    /\ viewportWidth' = clientWidth'

fitWidthOf_Unclamped(viewport, quarters) == viewport \div quarters

\* Math.max(24, Math.min(140, Math.floor(viewport / dataQuarters)))
fitWidthOf(viewport, quarters) == Max(24, Min(140, viewport \div quarters))

setFitState ==
    LET viewport == clientWidth
        width == fitWidthOf(viewport, dataQuarters)
    IN  /\ quarterWidth' = width
        /\ mode' = "fit"
        /\ raf' = Append(raf, [kind |-> "fit", width |-> width, left |-> 0])

\* the two mount effects: setFit(), then syncScroll() and the listeners
Mount ==
    /\ ~mounted
    /\ mounted' = TRUE
    /\ setFitState
    /\ UNCHANGED <<clientWidth, nodeScroll>>
    /\ syncScroll
    /\ UNCHANGED <<tzWest, pageVars, items, now, memo, dateVars, treeVars>>

setMultiYear ==
    /\ mounted /\ Len(raf) < MaxRaf
    /\ quarterWidth' = 58
    /\ mode' = "multi-year"
    /\ raf' = Append(raf, [kind |-> "center", width |-> 58, left |-> 0])
    /\ UNCHANGED <<tzWest, pageVars, items, now, memo, mounted, scrollLeft, viewportWidth, clientWidth,
                   nodeScroll, dateVars, treeVars>>

setToday ==
    /\ mounted /\ Len(raf) < MaxRaf
    /\ quarterWidth' = 92
    /\ mode' = "today"
    /\ raf' = Append(raf, [kind |-> "today", width |-> 92, left |-> 0])
    /\ UNCHANGED <<tzWest, pageVars, items, now, memo, mounted, scrollLeft, viewportWidth, clientWidth,
                   nodeScroll, dateVars, treeVars>>

setFit ==
    /\ mounted /\ Len(raf) < MaxRaf
    /\ setFitState
    /\ UNCHANGED <<tzWest, pageVars, items, now, memo, mounted, scrollLeft, viewportWidth, clientWidth,
                   nodeScroll, dateVars, treeVars>>

\* a requestAnimationFrame callback runs: scrollToQuarter / focusNearestEventRow,
\* and the scroll listener syncs the state
RunRaf ==
    /\ raf # <<>>
    /\ LET cb == Head(raf)
           left == CASE cb.kind = "center" -> ClampScroll(scrollTarget(dataMidTwice, cb.width), quarterWidth)
                     [] cb.kind = "fit" -> ClampScroll(scrollTarget(dataMidTwice, cb.width), quarterWidth)
                     [] cb.kind = "today" -> ClampScroll(scrollTarget(2 * currentQuarterIndex, cb.width), quarterWidth)
                     [] cb.kind = "focus" -> ClampScroll(cb.left, quarterWidth)
           top == IF cb.kind = "focus" /\ nearestEventRowIndex >= 0
                  THEN Max(nearestEventRowIndex * RowHeight + 8 - StickyHeight - 10, 0)
                  ELSE nodeScroll.top
       IN  /\ nodeScroll' = [left |-> left, top |-> top]
           /\ raf' = IF cb.kind = "fit"
                     THEN Append(Tail(raf), [kind |-> "focus", width |-> cb.width,
                                             left |-> scrollTarget(dataMidTwice, cb.width)])
                     ELSE Tail(raf)
    /\ UNCHANGED clientWidth
    /\ syncScroll
    /\ UNCHANGED <<tzWest, pageVars, items, now, memo, mounted, mode, quarterWidth, dateVars, treeVars>>

\* the quarters a user scroll may bring to the left edge: the data's quarters and
\* ScrollMargin quarters around them
ScrollMargin == 1
ScrollOffsets == {0, 1, 3}

ScrollPositions ==
    LET lo == quarterIndexFromModel(MkDate(baseRange.minYear, 0, 1), model.minYear)
        hi == quarterIndexFromModel(MkDate(baseRange.maxYear, 11, 31), model.minYear)
        qs == ((lo - ScrollMargin)..(lo + ScrollMargin)) \cup ((hi - ScrollMargin)..(hi + ScrollMargin))
    IN  { q * quarterWidth + off : q \in qs, off \in ScrollOffsets } \cup {0}

\* the user scrolls the panel; the scroll listener runs syncScroll
Scroll ==
    /\ mounted
    /\ \E s \in ScrollPositions :
           /\ ClampScroll(s, quarterWidth) # nodeScroll.left
           /\ nodeScroll' = [nodeScroll EXCEPT !.left = ClampScroll(s, quarterWidth)]
    /\ UNCHANGED clientWidth
    /\ syncScroll
    /\ UNCHANGED <<tzWest, pageVars, items, now, memo, mounted, mode, quarterWidth, raf, dateVars, treeVars>>

ClientWidths == {240, 1100}

\* the window is resized; the resize listener runs syncScroll
Resize ==
    /\ mounted
    /\ \E w \in ClientWidths :
           /\ w # clientWidth
           /\ clientWidth' = w
    /\ nodeScroll' = [nodeScroll EXCEPT
                        !.left = Max(0, Min(nodeScroll.left, Max(0, canvasWidth - clientWidth')))]
    /\ syncScroll
    /\ UNCHANGED <<tzWest, pageVars, items, now, memo, mounted, mode, quarterWidth, raf, dateVars, treeVars>>

(***************************************************************************)
(* Inputs of the board.                                                    *)
(***************************************************************************)
BoardDates ==
    { [y |-> BaseYear, m |-> 1, d |-> 1],
      [y |-> BaseYear, m |-> 3, d |-> 31],
      [y |-> BaseYear + YearSpan, m |-> 12, d |-> 31] }

\* events over the board dates: start <= end, a single-day event only on the first date
BoardEvents ==
    { ev \in [start : BoardDates, end : BoardDates] :
        /\ IsoLe(ev.start, ev.end)
        /\ (ev.start = ev.end => ev.start.m = 1) }

MaxItems == 2

ItemLists ==
    UNION { { [i \in 1..n |-> [id |-> i, start |-> f[i].start, end |-> f[i].end]]
              : f \in [1..n -> BoardEvents] } : n \in 1..MaxItems }

NowDates ==
    { MkDate(BaseYear - 1, 6, 1), MkDate(BaseYear, 1, 14), MkDate(BaseYear + YearSpan + 1, 10, 30) }

DatesIdle ==
    /\ evStart = [y |-> BaseYear, m |-> 1, d |-> 1]
    /\ evEnd = [y |-> BaseYear, m |-> 1, d |-> 1]
    /\ argMinYear = BaseYear
    /\ posDone = FALSE
    /\ idxDone = FALSE
    /\ calc = NoCalc

BoardInit ==
    /\ markdown = "" /\ error = <<>> /\ loading = TRUE /\ visits = 0
    /\ request = [phase |-> "none", status |-> 0, text |-> ""]
    /\ DatesIdle
    /\ TreeIdle
    /\ tzWest \in BOOLEAN
    /\ items \in ItemLists
    /\ now \in NowDates
    /\ mounted = FALSE
    /\ mode = "fit"
    /\ quarterWidth = 58
    /\ scrollLeft = 0
    /\ viewportWidth = 0
    /\ clientWidth = 1100
    /\ nodeScroll = [left |-> 0, top |-> 0]
    /\ raf = <<>>
    /\ memo = MemoOf(items, now, tzWest)

BoardNext ==
    \/ Mount
    \/ setMultiYear
    \/ setToday
    \/ setFit
    \/ RunRaf
    \/ Scroll
    \/ Resize

SpecBoard == BoardInit /\ [][BoardNext]_vars

(***************************************************************************)
(* The axis of the board for any event list, the empty list and a list     *)
(* with unparsable dates included.  In this part a JavaScript number is    *)
(* the tuple <<v>> and NaN is the empty tuple: Math.min, Math.max,         *)
(* Math.floor and the arithmetic operators give NaN as soon as an operand  *)
(* is NaN.                                                                 *)
(***************************************************************************)
NaN == <<>>

\* both operands are numbers other than NaN
finite(a, b) == a # NaN /\ b # NaN

\* new Date(iso).getFullYear()
getFullYear(iso, west) == IF iso = InvalidDate THEN NaN ELSE <<ParseDate(iso, west).year>>

\* baseRange: Math.min() of no argument is Infinity and Math.min of a NaN is NaN;
\* the year of new Date(Infinity) and of new Date(NaN) is NaN
baseRangeNum(ord, west) ==
    LET startYears == [i \in DOMAIN ord |-> getFullYear(ord[i].start, west)]
        endYears == [i \in DOMAIN ord |-> getFullYear(ord[i].end, west)]
    IN  [minYear |-> IF ord = <<>> \/ \E i \in DOMAIN ord : startYears[i] = NaN THEN NaN
                     ELSE <<SeqMin([i \in DOMAIN ord |-> startYears[i][1]])>>,
         maxYear |-> IF ord = <<>> \/ \E i \in DOMAIN ord : endYears[i] = NaN THEN NaN
                     ELSE <<SeqMax([i \in DOMAIN ord |-> endYears[i][1]])>>]

modelNum(base, currentYear) ==
    LET minYear == IF base.minYear = NaN THEN NaN ELSE <<Min(base.minYear[1], currentYear) - AxisPad>>
        maxYear == IF base.maxYear = NaN THEN NaN ELSE <<Max(base.maxYear[1], currentYear) + AxisPad>>
    IN  [minYear |-> minYear, maxYear |-> maxYear,
         totalQuarters |-> IF finite(minYear, maxYear)
                           THEN <<axisOf(minYear[1], maxYear[1]).totalQuarters>> ELSE NaN]

\* nearestEventRowIndex: with a NaN minYear every position is NaN, every distance is 0
\* and the first row keeps the index
nearestNum(ord, today, west, minYear) ==
    IF minYear = NaN THEN (IF ord = <<>> THEN -1 ELSE 0)
    ELSE nearestEventRowIndexOf(ord, today, west, minYear[1])

\* the values the component memoizes for its props, for any event list
MemoNum(its, today, west) ==
    LET ord == SortByStart(its)
        base == baseRangeNum(ord, west)
        mdl == modelNum(base, today.year)
    IN  [ordered |-> ord, baseRange |-> base, model |-> mdl,
         nearestEventRowIndex |-> nearestNum(ord, today, west, mdl.minYear)]

\* the input array once input.slice().sort(...) or input.filter(...).sort(...) has
\* returned sorted: slice and filter make a new array, and sort orders the array it is
\* called on, which is the new one
inputAfterSort_InPlace(input, sorted) == sorted

inputAfterSort(input, sorted) == input

\* the widths are not computed yet
NoWidths == [stage |-> "props", dataQuarters |-> NaN, quarterWidth |-> NaN, canvasWidth |-> NaN]

\* the first render: ordered, baseRange, model and nearestEventRowIndex
ComputeAxis ==
    /\ calc.stage = "props"
    /\ memo' = MemoNum(items, now, tzWest)
    /\ items' = inputAfterSort(items, SortByStart(items))
    /\ calc' = [calc EXCEPT !.stage = "memo"]
    /\ UNCHANGED <<tzWest, pageVars, now, mounted, mode, quarterWidth, scrollLeft, viewportWidth,
                   clientWidth, nodeScroll, raf, evStart, evEnd, argMinYear, posDone, idxDone,
                   treeVars>>

\* dataQuarters, the width setFit computes from it, and canvasWidth at that width
ComputeFitWidth ==
    /\ calc.stage = "memo"
    /\ LET base == memo.baseRange
           quarters == IF finite(base.maxYear, base.minYear)
                       THEN <<(base.maxYear[1] - base.minYear[1] + 1) * 4>> ELSE NaN
           viewport == clientWidth
           fit == IF quarters = NaN THEN NaN ELSE <<fitWidthOf(viewport, quarters[1])>>
       IN  calc' = [stage |-> "done", dataQuarters |-> quarters, quarterWidth |-> fit,
                    canvasWidth |-> IF finite(memo.model.totalQuarters, fit)
                                    THEN <<memo.model.totalQuarters[1] * fit[1]>> ELSE NaN]
    /\ UNCHANGED <<tzWest, pageVars, evStart, evEnd, argMinYear, posDone, idxDone, boardVars, treeVars>>

\* events whose start and end are a date of the data or a string that is not a date
AxisEvents ==
    { ev \in [start : BoardDates \cup {InvalidDate}, end : BoardDates \cup {InvalidDate}] :
        (ev.start # InvalidDate /\ ev.end # InvalidDate) => IsoLe(ev.start, ev.end) }

\* the lists of at most MaxItems events, the empty list among them
AxisItemLists ==
    UNION { { [i \in 1..n |-> [id |-> i, start |-> f[i].start, end |-> f[i].end]]
              : f \in [1..n -> AxisEvents] } : n \in 0..MaxItems }

AxisInit ==
    /\ markdown = "" /\ error = <<>> /\ loading = TRUE /\ visits = 0
    /\ request = [phase |-> "none", status |-> 0, text |-> ""]
    /\ TreeIdle
    /\ tzWest \in BOOLEAN
    /\ evStart = [y |-> BaseYear, m |-> 1, d |-> 1]
    /\ evEnd = [y |-> BaseYear, m |-> 1, d |-> 1]
    /\ argMinYear = BaseYear
    /\ posDone = FALSE
    /\ idxDone = FALSE
    /\ calc = NoWidths
    /\ items \in AxisItemLists
    /\ now \in NowDates
    /\ mounted = FALSE
    /\ mode = "fit"
    /\ quarterWidth = 58
    /\ scrollLeft = 0
    /\ viewportWidth = 0
    /\ clientWidth \in ClientWidths
    /\ nodeScroll = [left |-> 0, top |-> 0]
    /\ raf = <<>>
    /\ memo = NoMemo

AxisNext == ComputeAxis \/ ComputeFitWidth

SpecAxis == AxisInit /\ [][AxisNext]_vars

(***************************************************************************)
(* The skill-tree packing engine.                                          *)
(*                                                                         *)
(* Numbers.  A length is an integer number of 1/Unit px, so that the label *)
(* widths (108 + 3.9 * length) are exact; a quotient or a square root is   *)
(* rounded to that unit, where the code rounds to a double.  Math.cos and  *)
(* Math.sin are tabulated, to five decimals, for the angles the code       *)
(* passes to polarPoint.                                                   *)
(***************************************************************************)
Unit == 40

Px(n) == n * Unit

\* a / b for b > 0, rounded to the nearest integer
RoundDiv(a, b) == (2 * a + b) \div (2 * b)

Abs(a) == IF a < 0 THEN -a ELSE a

\* Math.sign for a value that is not 0
Sign(a) == IF a > 0 THEN 1 ELSE -1

clamp_Unclamped(value, min, max) == value

clamp(value, min, max) == Max(min, Min(max, value))

SetMin(S) == CHOOSE v \in S : \A w \in S : v <= w
SetMax(S) == CHOOSE v \in S : \A w \in S : v >= w

RECURSIVE SqrtBetween(_, _, _)
\* the largest r in lo..hi with r * r <= n
SqrtBetween(n, lo, hi) ==
    IF lo >= hi THEN lo
    ELSE LET mid == (lo + hi + 1) \div 2
         IN  IF mid * mid <= n THEN SqrtBetween(n, mid, hi) ELSE SqrtBetween(n, lo, mid - 1)

\* Math.hypot(x, y)
hypot(x, y) == SqrtBetween(x * x + y * y, 0, 46340)

distanceToPoint(x1, y1, x2, y2) == hypot(x2 - x1, y2 - y1)

\* Array.prototype.sort with the comparator (a, b) => a[1] - b[1] || a[2] - b[2], a
\* stable sort: the indexes of key in sorted order
SortedIndexes(key) ==
    LET less(a, b) == a[1] < b[1] \/ (a[1] = b[1] /\ a[2] < b[2])
        before(i, j) == less(key[i], key[j]) \/ (key[i] = key[j] /\ i < j)
    IN  [r \in DOMAIN key |->
            CHOOSE i \in DOMAIN key : Cardinality({ j \in DOMAIN key : before(j, i) }) = r - 1]

\* [n, d, cos, sin]: Math.cos and Math.sin of n/d degrees, times 10^5
TrigTable ==
    { [n |-> -126, d |-> 1, cos |-> -58779, sin |-> -80902],
      [n |-> -1566, d |-> 13, cos |-> -50696, sin |-> -86197],
      [n |-> -120, d |-> 1, cos |-> -50000, sin |-> -86603],
      [n |-> -1494, d |-> 13, cos |-> -42140, sin |-> -90687],
      [n |-> -114, d |-> 1, cos |-> -40674, sin |-> -91355],
      [n |-> -558, d |-> 5, cos |-> -36812, sin |-> -92978],
      [n |-> -1422, d |-> 13, cos |-> -33191, sin |-> -94331],
      [n |-> -108, d |-> 1, cos |-> -30902, sin |-> -95106],
      [n |-> -1350, d |-> 13, cos |-> -23932, sin |-> -97094],
      [n |-> -102, d |-> 1, cos |-> -20791, sin |-> -97815],
      [n |-> -1278, d |-> 13, cos |-> -14449, sin |-> -98951],
      [n |-> -486, d |-> 5, cos |-> -12533, sin |-> -99211],
      [n |-> -96, d |-> 1, cos |-> -10453, sin |-> -99452],
      [n |-> -1206, d |-> 13, cos |-> -4831, sin |-> -99883],
      [n |-> -90, d |-> 1, cos |-> 0, sin |-> -100000],
      [n |-> -1134, d |-> 13, cos |-> 4831, sin |-> -99883],
      [n |-> -84, d |-> 1, cos |-> 10453, sin |-> -99452],
      [n |-> -414, d |-> 5, cos |-> 12533, sin |-> -99211],
      [n |-> -1062, d |-> 13, cos |-> 14449, sin |-> -98951],
      [n |-> -78, d |-> 1, cos |-> 20791, sin |-> -97815],
      [n |-> -990, d |-> 13, cos |-> 23932, sin |-> -97094],
      [n |-> -72, d |-> 1, cos |-> 30902, sin |-> -95106],
      [n |-> -918, d |-> 13, cos |-> 33191, sin |-> -94331],
      [n |-> -342, d |-> 5, cos |-> 36812, sin |-> -92978],
      [n |-> -66, d |-> 1, cos |-> 40674, sin |-> -91355],
      [n |-> -846, d |-> 13, cos |-> 42140, sin |-> -90687],
      [n |-> -60, d |-> 1, cos |-> 50000, sin |-> -86603],
      [n |-> -774, d |-> 13, cos |-> 50696, sin |-> -86197],
      [n |-> -54, d |-> 1, cos |-> 58779, sin |-> -80902],
      [n |-> 58, d |-> 1, cos |-> 52992, sin |-> 84805],
      [n |-> 70, d |-> 1, cos |-> 34202, sin |-> 93969],
      [n |-> 90, d |-> 1, cos |-> 0, sin |-> 100000],
      [n |-> 110, d |-> 1, cos |-> -34202, sin |-> 93969],
      [n |-> 122, d |-> 1, cos |-> -52992, sin |-> 84805] }

width == 1720
height == 1220
rootX == Px(width) \div 2
rootY == Px(height) \div 2 + Px(10)

Zones == {"upper", "root"}

rootZoneAreas == {"Mathematics", "Mathmatics", "Python"}

\* the area names of the roadmap, in localeCompare order
AreaNames ==
    << "Algorithms", "Backend", "Cloud", "Databases", "Embedded", "Frontend", "Golang",
       "Hardware", "Infra", "Java", "Kubernetes", "Linux", "Mathematics", "Mathmatics",
       "Networking", "Observability", "Python", "Rust", "Security" >>

AreaRank(name) == CHOOSE i \in DOMAIN AreaNames : AreaNames[i] = name

\* a sequence reordered by the stable sort on key
SortedBy(s, key) == LET order == SortedIndexes(key) IN [i \in DOMAIN order |-> s[order[i]]]

\* groups.filter(...).sort((a, b) => a.area.localeCompare(b.area))
lowerGroups ==
    LET kept == SelectSeq(groups, LAMBDA g : g.area \in rootZoneAreas)
    IN  SortedBy(kept, [i \in DOMAIN kept |-> <<AreaRank(kept[i].area), 0>>])

\* groups.filter(...).sort((a, b) => b.tasks.length - a.tasks.length || a.area.localeCompare(b.area))
upperGroups ==
    LET kept == SelectSeq(groups, LAMBDA g : g.area \notin rootZoneAreas)
    IN  SortedBy(kept, [i \in DOMAIN kept |-> <<-Len(kept[i].tasks), AreaRank(kept[i].area)>>])

zoneGroups(z) == IF z = "upper" THEN upperGroups ELSE lowerGroups

\* the angles, in degrees, as rationals
buildCenteredAngles(centerDeg, spreadDeg, count) ==
    IF count <= 1 THEN <<Rat(centerDeg, 1)>>
    ELSE [i \in 1..count |->
            Rat((2 * centerDeg - spreadDeg) * (count - 1) + 2 * (i - 1) * spreadDeg, 2 * (count - 1))]

\* radius in px, degree a rational
polarPoint(cx, cy, radius, degree) ==
    LET t == CHOOSE e \in TrigTable : e.n * degree.d = degree.n * e.d
    IN  [x |-> cx + RoundDiv(radius * t.cos, 100000 \div Unit),
         y |-> cy + RoundDiv(radius * t.sin, 100000 \div Unit)]

\* the offsets tried by a search with the given step: 0, step, -step, 2 step, -2 step, ...
searchOffsets(maxShift, step) ==
    [k \in 1..(2 * (maxShift \div step) + 1) |->
        IF k = 1 THEN 0 ELSE IF k % 2 = 0 THEN (k \div 2) * step ELSE -((k \div 2) * step)]

findBandShift(bandTop, bandBottom, occupied, maxShift) ==
    LET offsets == searchOffsets(maxShift, 8)
        overlaps(offset) ==
            \E k \in DOMAIN occupied :
                bandBottom + offset > occupied[k].start /\ bandTop + offset < occupied[k].end
        free == { k \in DOMAIN offsets : ~overlaps(Px(offsets[k])) }
    IN  IF free = {} THEN 0 ELSE Px(offsets[SetMin(free)])

leafRadius_Inverted(progress) == 10 + (2 * (100 - progress) + 26) \div 52

\* radius: 10 + Math.round(task.progress / 26)
leafRadius(progress) == 10 + (2 * progress + 26) \div 52

\* the leaf pushed for the task with index taskIndex of an area
placedLeaf(z, task, taskIndex, area, baseX) ==
    LET rowStep == 54
        side == area.side
        lane == IF taskIndex % 2 = 0 THEN -1 ELSE 1
        depth == taskIndex \div 2
        pointY == area.bandTop + Px(20 + taskIndex * rowStep)
        pointX == baseX + side * Px((IF z = "upper" THEN 88 ELSE 84) + depth * 12) + lane * Px(6)
        boxWidth == Max(Px(238), Min(Px(320), Px(108) + (task.topicLength * 39 * Unit) \div 10))
        boxHeight == Px(40)
        boxX == IF side > 0 THEN pointX + Px(16) ELSE pointX - Px(16) - boxWidth
    IN  [id |-> task.id, clusterId |-> area.key, progress |-> task.progress,
         x |-> pointX, y |-> pointY, areaX |-> baseX, areaY |-> area.y, side |-> side,
         radius |-> Px(leafRadius(task.progress)), zone |-> z,
         boxWidth |-> boxWidth, boxHeight |-> boxHeight,
         baseBoxY |-> pointY - boxHeight \div 2,
         boxX |-> boxX, boxY |-> pointY - boxHeight \div 2, boxCenterY |-> pointY,
         boxAnchorX |-> IF side > 0 THEN boxX ELSE boxX + boxWidth,
         textX |-> IF side > 0 THEN boxX + Px(10) ELSE boxX + boxWidth - Px(10),
         minY |-> area.bandTop + Px(4),
         maxY |-> area.bandBottom - boxHeight - Px(4)]

bandHeightOf_NoMinimum(count) == Px(count * 54 + 36)

\* bandHeight: Math.max(108, group.tasks.length * rowStep + 36) with rowStep = 54
bandHeightOf(count) == Px(Max(108, count * 54 + 36))

\* one iteration of upperGroups.forEach / lowerGroups.forEach: the area, its leaves
\* and the intervals of its side, for the group with index idx (from 0)
placedArea(z, idx, intervalsBySide) ==
    LET zg == zoneGroups(z)
        group == zg[idx + 1]
        upper == z = "upper"
        sideHint == IF group.area = "Python" THEN 1 ELSE -1
        angle == IF upper THEN buildCenteredAngles(-90, 72, Len(zg))[idx + 1]
                 ELSE IF Len(zg) = 2 THEN Rat(IF sideHint > 0 THEN 70 ELSE 110, 1)
                 ELSE buildCenteredAngles(90, 64, Len(zg))[idx + 1]
        radius == (IF upper THEN 264 ELSE 214) + ((idx + 1) \div 2) * 34
        base == polarPoint(rootX, rootY, radius, angle)
        side == IF upper /\ Abs(base.x - rootX) < Px(24) THEN (IF idx % 2 = 0 THEN -1 ELSE 1)
                ELSE IF base.x <= rootX THEN -1 ELSE 1
        bandHeight == bandHeightOf(Len(group.tasks))
        top == IF upper THEN base.y - Px(18) - bandHeight ELSE base.y + Px(18)
        sideIntervals == intervalsBySide[side]
        shift == findBandShift(top, top + bandHeight, sideIntervals, IF upper THEN 112 ELSE 108)
        bandTop == top + shift
        bandBottom == top + bandHeight + shift
        pushed == Append(sideIntervals, [start |-> bandTop, end |-> bandBottom])
        area == [key |-> IF upper THEN group.area ELSE "root:" \o group.area,
                 area |-> group.area, x |-> base.x, y |-> base.y + shift, side |-> side,
                 bandTop |-> bandTop, bandBottom |-> bandBottom]
    IN  [area |-> area,
         leaves |-> [t \in DOMAIN group.tasks |-> placedLeaf(z, group.tasks[t], t - 1, area, base.x)],
         intervals |-> [intervalsBySide EXCEPT
                          ![side] = SortedBy(pushed, [i \in DOMAIN pushed |-> <<pushed[i].start, 0>>])]]

\* the Map of buildAreaLaneBlockers: for a key, the intervals of the areas with that key
buildAreaLaneBlockers(as, key) ==
    LET lane == SelectSeq(as, LAMBDA a : a.key = key)
    IN  [i \in DOMAIN lane |-> [start |-> lane[i].y - Px(30), end |-> lane[i].y + Px(30)]]

isYFreeForNode(y, node, occupied, blockers, gap) ==
    LET bottom == y + node.boxHeight
        left == node.boxX
        right == node.boxX + node.boxWidth
        blockedByArea == \E k \in DOMAIN blockers :
                             bottom + gap > blockers[k].start /\ y < blockers[k].end + gap
    IN  /\ ~blockedByArea
        /\ ~\E k \in DOMAIN occupied :
               /\ bottom + gap > occupied[k].top
               /\ y < occupied[k].bottom + gap
               /\ right + gap > occupied[k].left
               /\ left < occupied[k].right + gap

findNearestAvailableYForNode(node, occupied, laneBlockers, gap, maxShift, minY, maxY) ==
    LET step == 6
        offsets == searchOffsets(maxShift, step)
        near(k) == clamp(node.baseBoxY + Px(offsets[k]), minY, maxY)
        freeNear == { k \in DOMAIN offsets : isYFreeForNode(near(k), node, occupied, laneBlockers, gap) }
        scanned == { minY + k * Px(step) : k \in 0..((maxY - minY) \div Px(step)) }
        freeScanned == { c \in scanned : isYFreeForNode(c, node, occupied, laneBlockers, gap) }
    IN  IF freeNear # {} THEN near(SetMin(freeNear))
        ELSE IF freeScanned # {} THEN SetMin(freeScanned)
        ELSE clamp(node.baseBoxY, minY, maxY)

\* the callback of ordered.forEach in resolveLeafOverlap: the node it leaves
resolvedNode(node, occupied, as, maxShift) ==
    LET laneGap == Px(12)
        laneBlockers == buildAreaLaneBlockers(as, node.clusterId)
        candidateY == findNearestAvailableYForNode(node, occupied, laneBlockers, laneGap,
                                                   maxShift, node.minY, node.maxY)
    IN  [node EXCEPT
           !.boxY = candidateY,
           !.boxCenterY = candidateY + node.boxHeight \div 2,
           !.boxAnchorX = IF node.side > 0 THEN node.boxX ELSE node.boxX + node.boxWidth,
           !.textX = IF node.side > 0 THEN node.boxX + Px(10) ELSE node.boxX + node.boxWidth - Px(10)]

\* the option records of the calls in buildRoadmapSkillTreeLayout
options_NoZoneGap(z) ==
    IF z = "upper"
    THEN [zone |-> "upper", minRadius |-> 124, zoneGap |-> 0, rootKeepout |-> 98,
          clusterGap |-> 8, boundaryPadding |-> 12]
    ELSE [zone |-> "root", minRadius |-> 92, zoneGap |-> 0, rootKeepout |-> 98,
          clusterGap |-> 8, boundaryPadding |-> 12]

options(z) ==
    IF z = "upper"
    THEN [zone |-> "upper", minRadius |-> 124, zoneGap |-> 106, rootKeepout |-> 98,
          clusterGap |-> 8, boundaryPadding |-> 12]
    ELSE [zone |-> "root", minRadius |-> 92, zoneGap |-> 84, rootKeepout |-> 98,
          clusterGap |-> 8, boundaryPadding |-> 12]

getClusterBounds(area, leaves) ==
    LET L == { leaves[i] : i \in DOMAIN leaves }
    IN  [minX |-> SetMin({area.x - Px(92)} \cup { l.boxX : l \in L }
                         \cup { l.boxAnchorX - l.radius - Px(2) : l \in L }),
         maxX |-> SetMax({area.x + Px(92)} \cup { l.boxX + l.boxWidth : l \in L }
                         \cup { l.boxAnchorX + l.radius + Px(2) : l \in L }),
         minY |-> SetMin({area.y - Px(16)} \cup { l.boxY : l \in L }
                         \cup { l.boxCenterY - l.radius - Px(2) : l \in L }),
         maxY |-> SetMax({area.y + Px(16)} \cup { l.boxY + l.boxHeight : l \in L }
                         \cup { l.boxCenterY + l.radius + Px(2) : l \in L })]

shiftBounds(bounds, dx, dy) ==
    [minX |-> bounds.minX + dx, maxX |-> bounds.maxX + dx,
     minY |-> bounds.minY + dy, maxY |-> bounds.maxY + dy]

boxesOverlap_NoGap(a, b, gap) ==
    ~(a.maxX < b.minX \/ a.minX > b.maxX \/ a.maxY < b.minY \/ a.minY > b.maxY)

boxesOverlap(a, b, gap) ==
    ~(a.maxX + gap < b.minX \/ a.minX > b.maxX + gap \/ a.maxY + gap < b.minY \/ a.minY > b.maxY + gap)

isCircleIntersectingAabb(cx, cy, radius, box) ==
    LET nearestX == clamp(cx, box.minX, box.maxX)
        nearestY == clamp(cy, box.minY, box.maxY)
        dx == cx - nearestX
        dy == cy - nearestY
    IN  dx * dx + dy * dy <= radius * radius

\* clusters.slice().sort(...): the indexes of the clusters, the farthest from the root first
orderedClusters(as) ==
    SortedIndexes([i \in DOMAIN as |-> <<-distanceToPoint(as[i].x, as[i].y, rootX, rootY), 0>>])

\* the body of "for (const cluster of ordered)" for cluster c, up to the decision:
\* accepted is FALSE where the code continues, else (dx, dy) is the step it applies
compactMove_AwayFromRoot(z, c, as, bounds) ==
    LET o == options(z)
        step == Px(30)
        vectorX == rootX - as[c].x
        vectorY == rootY - as[c].y
        distance == hypot(vectorX, vectorY)
        moveLength == Min(step, distance - Px(o.minRadius))
        dx == -RoundDiv(vectorX * moveLength, distance)
        dy == -RoundDiv(vectorY * moveLength, distance)
        nextAreaY == as[c].y + dy
        nextBounds == shiftBounds(bounds[c], dx, dy)
        rejected ==
            \/ distance <= Px(o.minRadius + 1)
            \/ (o.zone = "upper" /\ nextAreaY > rootY - Px(o.zoneGap))
            \/ (o.zone = "root" /\ nextAreaY < rootY + Px(o.zoneGap))
            \/ nextBounds.minX < Px(o.boundaryPadding)
            \/ nextBounds.maxX > Px(width - o.boundaryPadding)
            \/ nextBounds.minY < Px(o.boundaryPadding)
            \/ nextBounds.maxY > Px(height - o.boundaryPadding)
            \/ isCircleIntersectingAabb(rootX, rootY, Px(o.rootKeepout), nextBounds)
            \/ \E other \in DOMAIN bounds :
                   other # c /\ boxesOverlap(nextBounds, bounds[other], Px(o.clusterGap))
    IN  IF rejected THEN [accepted |-> FALSE, dx |-> 0, dy |-> 0]
        ELSE [accepted |-> TRUE, dx |-> dx, dy |-> dy]

compactMove(z, c, as, bounds) ==
    LET o == options(z)
        step == Px(30)
        vectorX == rootX - as[c].x
        vectorY == rootY - as[c].y
        distance == hypot(vectorX, vectorY)
        moveLength == Min(step, distance - Px(o.minRadius))
        dx == RoundDiv(vectorX * moveLength, distance)
        dy == RoundDiv(vectorY * moveLength, distance)
        nextAreaY == as[c].y + dy
        nextBounds == shiftBounds(bounds[c], dx, dy)
        rejected ==
            \/ distance <= Px(o.minRadius + 1)
            \/ (o.zone = "upper" /\ nextAreaY > rootY - Px(o.zoneGap))
            \/ (o.zone = "root" /\ nextAreaY < rootY + Px(o.zoneGap))
            \/ nextBounds.minX < Px(o.boundaryPadding)
            \/ nextBounds.maxX > Px(width - o.boundaryPadding)
            \/ nextBounds.minY < Px(o.boundaryPadding)
            \/ nextBounds.maxY > Px(height - o.boundaryPadding)
            \/ isCircleIntersectingAabb(rootX, rootY, Px(o.rootKeepout), nextBounds)
            \/ \E other \in DOMAIN bounds :
                   other # c /\ boxesOverlap(nextBounds, bounds[other], Px(o.clusterGap))
    IN  IF rejected THEN [accepted |-> FALSE, dx |-> 0, dy |-> 0]
        ELSE [accepted |-> TRUE, dx |-> dx, dy |-> dy]

\* cluster.leaves.forEach of an accepted compaction step
moveLeaf_TextStays(leaf, dx, dy) ==
    [leaf EXCEPT !.x = @ + dx, !.y = @ + dy, !.areaX = @ + dx, !.areaY = @ + dy,
                 !.baseBoxY = @ + dy, !.boxX = @ + dx, !.boxY = @ + dy, !.boxCenterY = @ + dy,
                 !.boxAnchorX = @ + dx, !.minY = @ + dy, !.maxY = @ + dy]

moveLeaf(leaf, dx, dy) ==
    [leaf EXCEPT !.x = @ + dx, !.y = @ + dy, !.areaX = @ + dx, !.areaY = @ + dy,
                 !.baseBoxY = @ + dy, !.boxX = @ + dx, !.boxY = @ + dy, !.boxCenterY = @ + dy,
                 !.boxAnchorX = @ + dx, !.textX = @ + dx, !.minY = @ + dy, !.maxY = @ + dy]

\* leaves.forEach of shiftAreaClusterY
shiftLeafY(leaf, applied) ==
    [leaf EXCEPT !.y = @ + applied, !.areaY = @ + applied, !.baseBoxY = @ + applied,
                 !.boxY = @ + applied, !.boxCenterY = @ + applied,
                 !.minY = @ + applied, !.maxY = @ + applied]

\* shiftAreaClusterY for the area with index i: [moved, areas, topics]
shiftAreaClusterY(z, as, leaves, i, deltaY) ==
    LET o == options(z)
        minY == IF o.zone = "upper" THEN Px(o.boundaryPadding + 18) ELSE rootY + Px(o.zoneGap + 12)
        maxY == IF o.zone = "upper" THEN rootY - Px(o.zoneGap + 12)
                ELSE Px(height - o.boundaryPadding - 18)
        targetY == clamp(as[i].y + deltaY, minY, maxY)
        applied == targetY - as[i].y
    IN  IF 10 * Abs(applied) < Unit
        THEN [moved |-> FALSE, areas |-> as, topics |-> leaves]
        ELSE [moved |-> TRUE,
              areas |-> [as EXCEPT ![i] = [@ EXCEPT !.y = targetY, !.bandTop = @ + applied,
                                                    !.bandBottom = @ + applied]],
              topics |-> [t \in DOMAIN leaves |->
                            IF leaves[t].clusterId = as[i].key THEN shiftLeafY(leaves[t], applied)
                            ELSE leaves[t]]]

\* the body of the inner loop of separateAreaNodes for the pair (i, j): [moved, areas, topics]
separatePair(z, as, leaves, i, j) ==
    LET minXGap == Px(202)
        minYGap == Px(52)
        dx == as[j].x - as[i].x
        dy == as[j].y - as[i].y
        overlapX == minXGap - Abs(dx)
        overlapY == minYGap - Abs(dy)
        direction == IF dy = 0 THEN (IF z = "upper" THEN -1 ELSE 1) ELSE Sign(dy)
        delta == RoundDiv(overlapY, 2) + Px(1)
        first == shiftAreaClusterY(z, as, leaves, i, -direction * delta)
        second == shiftAreaClusterY(z, first.areas, first.topics, j, direction * delta)
    IN  IF overlapX <= 0 \/ overlapY <= 0
        THEN [moved |-> FALSE, areas |-> as, topics |-> leaves]
        ELSE [moved |-> first.moved \/ second.moved, areas |-> second.areas, topics |-> second.topics]

\* the include(x, y, padding) calls of computeSkillTreeViewBox, with the initial extent
\* as the two corners root -260/-280 and root +260/+120
includedPoints(as, leaves) ==
    LET A == { as[i] : i \in DOMAIN as }
        T == { leaves[i] : i \in DOMAIN leaves }
        upperHalf(a) == a.y < rootY
    IN  {[x |-> rootX - Px(260), y |-> rootY - Px(280), padding |-> 0],
         [x |-> rootX + Px(260), y |-> rootY + Px(120), padding |-> 0],
         [x |-> rootX, y |-> rootY, padding |-> Px(28)],
         [x |-> rootX, y |-> rootY + Px(62), padding |-> Px(20)]}
        \cup { [x |-> a.x, y |-> a.y, padding |-> Px(108)] : a \in A }
        \cup { [x |-> rootX + a.side * Px(28),
                y |-> rootY + (IF upperHalf(a) THEN -Px(170) ELSE Px(120)), padding |-> Px(24)] : a \in A }
        \cup { [x |-> a.x - a.side * Px(34),
                y |-> a.y + (IF upperHalf(a) THEN Px(110) ELSE -Px(82)), padding |-> Px(24)] : a \in A }
        \cup { [x |-> t.areaX, y |-> t.areaY, padding |-> Px(24)] : t \in T }
        \cup { [x |-> t.boxAnchorX, y |-> t.boxCenterY, padding |-> t.radius + Px(4)] : t \in T }
        \cup { [x |-> t.boxX + t.boxWidth \div 2, y |-> t.boxY + t.boxHeight \div 2,
                padding |-> Max(t.boxWidth, t.boxHeight) \div 2 + Px(6)] : t \in T }
        \cup { [x |-> t.textX, y |-> t.boxY + Px(18), padding |-> Px(14)] : t \in T }
        \cup { [x |-> t.textX, y |-> t.boxY + Px(34), padding |-> Px(14)] : t \in T }
        \cup { [x |-> t.boxAnchorX - t.side * Px(54),
                y |-> t.boxCenterY + (IF t.zone = "upper" THEN Px(48) ELSE -Px(42)),
                padding |-> Px(18)] : t \in T }

\* the object returned: x and y are moved so that the window ends inside the canvas
fitWindow_Unmoved(x, y, viewWidth, viewHeight) ==
    [x |-> x, y |-> y, width |-> viewWidth, height |-> viewHeight]

fitWindow(x, y, viewWidth, viewHeight) ==
    [x |-> clamp(x, 0, Max(0, width - viewWidth)),
     y |-> clamp(y, 0, Max(0, height - viewHeight)),
     width |-> viewWidth, height |-> viewHeight]

\* x, y, width and height of the view window, in px
computeSkillTreeViewBox(as, rootAs, leaves, rootLeaves) ==
    LET \* Math.floor and Math.ceil of a length, in px
        Floor(v) == v \div Unit
        Ceil(v) == -((-v) \div Unit)
        P == includedPoints(as \o rootAs, leaves \o rootLeaves)
        minX == SetMin({ p.x - p.padding : p \in P })
        maxX == SetMax({ p.x + p.padding : p \in P })
        minY == SetMin({ p.y - p.padding : p \in P })
        maxY == SetMax({ p.y + p.padding : p \in P })
        padding == Px(30)
        x == clamp(Floor(minX - padding), 0, width - 1)
        y == clamp(Floor(minY - padding), 0, height - 1)
        viewWidth == clamp(Ceil(maxX - minX + padding * 2), 960, width)
        viewHeight == clamp(Ceil(maxY - minY + padding * 2), 640, height)
    IN  fitWindow(x, y, viewWidth, viewHeight)

(***************************************************************************)
(* The packing as a state machine: pc is the call of                       *)
(* buildRoadmapSkillTreeLayout that runs and the zone whose arrays it is   *)
(* given, loop the local variables of that call.                           *)
(***************************************************************************)
\* const areas = [], rootAreas = [], topics = [], rootTopics = []: the arrays of a pass
freshArray_Reused(old) == old

freshArray(old) == [z \in Zones |-> <<>>]

\* the statement after the call that runs, for the zone it was given
afterCall(p) ==
    IF p.zone = "upper" THEN [stage |-> p.stage, zone |-> "root"]
    ELSE [stage |-> CASE p.stage = "place" -> "resolve"
                      [] p.stage = "resolve" -> "compact"
                      [] p.stage = "compact" -> "separate"
                      [] p.stage = "separate" -> "resolveAgain"
                      [] OTHER -> "viewBox",
          zone |-> "upper"]

\* one call of the callback of upperGroups.forEach or lowerGroups.forEach
PlaceArea ==
    /\ pc.stage = "place"
    /\ loop.idx < Len(zoneGroups(pc.zone))
    /\ LET p == placedArea(pc.zone, loop.idx, loop.intervals)
       IN  /\ areas' = [areas EXCEPT ![pc.zone] = Append(@, p.area)]
           /\ topics' = [topics EXCEPT ![pc.zone] = @ \o p.leaves]
           /\ loop' = [loop EXCEPT !.idx = @ + 1, !.intervals = p.intervals]
    /\ UNCHANGED <<groups, pc, viewBox, returned, tzWest, pageVars, dateVars, boardVars>>

\* the end of a forEach over the groups of a zone
PlaceDone ==
    /\ pc.stage = "place"
    /\ loop.idx = Len(zoneGroups(pc.zone))
    /\ pc' = afterCall(pc)
    /\ loop' = NoLoop
    /\ UNCHANGED <<groups, areas, topics, viewBox, returned, tzWest, pageVars, dateVars, boardVars>>

\* resolveLeafOverlap(topics, buildAreaLaneBlockers(areas), 240), before and after the
\* compaction and the separation, up to its forEach
ResolveStart ==
    /\ pc.stage \in {"resolve", "resolveAgain"}
    /\ loop = NoLoop
    /\ LET nodes == topics[pc.zone]
           \* nodes.slice().sort((a, b) => a.baseBoxY - b.baseBoxY || a.boxX - b.boxX)
           order == SortedIndexes([i \in DOMAIN nodes |-> <<nodes[i].baseBoxY, nodes[i].boxX>>])
       IN  loop' = [NoLoop EXCEPT !.idx = 1, !.ordered = order]
    /\ UNCHANGED <<groups, pc, areas, topics, viewBox, returned, tzWest, pageVars, dateVars, boardVars>>

\* one call of the callback of ordered.forEach in resolveLeafOverlap
ResolveNode ==
    /\ pc.stage \in {"resolve", "resolveAgain"}
    /\ loop.idx \in 1..Len(loop.ordered)
    /\ LET z == pc.zone
           n == loop.ordered[loop.idx]
           node == resolvedNode(topics[z][n], loop.occupied, areas[z], 240)
       IN  /\ topics' = [topics EXCEPT ![z][n] = node]
           /\ loop' = [loop EXCEPT
                          !.idx = @ + 1,
                          !.occupied = Append(@, [top |-> node.boxY, bottom |-> node.boxY + node.boxHeight,
                                                  left |-> node.boxX, right |-> node.boxX + node.boxWidth])]
    /\ UNCHANGED <<groups, pc, areas, viewBox, returned, tzWest, pageVars, dateVars, boardVars>>

\* the return of resolveLeafOverlap
ResolveDone ==
    /\ pc.stage \in {"resolve", "resolveAgain"}
    /\ loop.idx > Len(loop.ordered)
    /\ pc' = afterCall(pc)
    /\ loop' = NoLoop
    /\ UNCHANGED <<groups, areas, topics, viewBox, returned, tzWest, pageVars, dateVars, boardVars>>

\* compactClustersTowardCore up to its first sweep
CompactStart ==
    /\ pc.stage = "compact"
    /\ loop = NoLoop
    /\ IF areas[pc.zone] = <<>>
       THEN pc' = afterCall(pc) /\ loop' = loop
       ELSE /\ LET laneLeaves(area) ==
                         SelectSeq(topics[pc.zone], LAMBDA leaf : leaf.clusterId = area.key)
                 IN  loop' = [NoLoop EXCEPT
                                !.idx = 1,
                                !.ordered = orderedClusters(areas[pc.zone]),
                                !.bounds = [i \in DOMAIN areas[pc.zone] |->
                                              getClusterBounds(areas[pc.zone][i],
                                                               laneLeaves(areas[pc.zone][i]))]]
            /\ pc' = pc
    /\ UNCHANGED <<groups, areas, topics, viewBox, returned, tzWest, pageVars, dateVars, boardVars>>

\* the body of "for (const cluster of ordered)" for one cluster
CompactStep ==
    /\ pc.stage = "compact"
    /\ loop.idx \in 1..Len(loop.ordered)
    /\ LET z == pc.zone
           c == loop.ordered[loop.idx]
           m == compactMove(z, c, areas[z], loop.bounds)
       IN  IF m.accepted
           THEN /\ areas' = [areas EXCEPT ![z][c] =
                               [@ EXCEPT !.x = @ + m.dx, !.y = @ + m.dy,
                                         !.bandTop = @ + m.dy, !.bandBottom = @ + m.dy]]
                /\ topics' = [topics EXCEPT ![z] =
                                [t \in DOMAIN @ |->
                                   IF @[t].clusterId = areas[z][c].key THEN moveLeaf(@[t], m.dx, m.dy)
                                   ELSE @[t]]]
                /\ loop' = [loop EXCEPT !.idx = @ + 1, !.moved = TRUE,
                                        !.bounds[c] = shiftBounds(@, m.dx, m.dy)]
           ELSE /\ loop' = [loop EXCEPT !.idx = @ + 1]
                /\ UNCHANGED <<areas, topics>>
    /\ UNCHANGED <<groups, pc, viewBox, returned, tzWest, pageVars, dateVars, boardVars>>

\* the end of a sweep of compactClustersTowardCore: break, or the next iteration
maxIterations_Unbounded(stage) == 1000000

\* const maxIterations = 320 of compactClustersTowardCore, 64 of separateAreaNodes
maxIterations(stage) == IF stage = "compact" THEN 320 ELSE 64

CompactIteration ==
    /\ pc.stage = "compact"
    /\ loop.idx > Len(loop.ordered)
    /\ loop.idx > 0
    /\ IF ~loop.moved \/ loop.iteration + 1 >= maxIterations(pc.stage)
       THEN pc' = afterCall(pc) /\ loop' = NoLoop
       ELSE /\ loop' = [loop EXCEPT !.idx = 1, !.iteration = @ + 1, !.moved = FALSE,
                                    !.ordered = orderedClusters(areas[pc.zone])]
            /\ pc' = pc
    /\ UNCHANGED <<groups, areas, topics, viewBox, returned, tzWest, pageVars, dateVars, boardVars>>

\* separateAreaNodes up to its first pair
SeparateStart ==
    /\ pc.stage = "separate"
    /\ loop = NoLoop
    /\ IF Len(areas[pc.zone]) < 2
       THEN pc' = afterCall(pc) /\ loop' = loop
       ELSE loop' = [NoLoop EXCEPT !.idx = 1, !.j = 2] /\ pc' = pc
    /\ UNCHANGED <<groups, areas, topics, viewBox, returned, tzWest, pageVars, dateVars, boardVars>>

\* the body of the inner loop of separateAreaNodes for the pair (idx, j), indexes from 1
SeparatePair ==
    /\ pc.stage = "separate"
    /\ loop.idx >= 1
    /\ loop.j <= Len(areas[pc.zone])
    /\ LET z == pc.zone
           s == separatePair(z, areas[z], topics[z], loop.idx, loop.j)
           last == loop.j = Len(areas[z])
       IN  /\ areas' = [areas EXCEPT ![z] = s.areas]
           /\ topics' = [topics EXCEPT ![z] = s.topics]
           /\ loop' = [loop EXCEPT !.idx = IF last THEN @ + 1 ELSE @,
                                   !.j = IF last THEN loop.idx + 2 ELSE @ + 1,
                                   !.moved = s.moved \/ @]
    /\ UNCHANGED <<groups, pc, viewBox, returned, tzWest, pageVars, dateVars, boardVars>>

\* the end of a sweep of separateAreaNodes: break, or the next iteration
SeparateIteration ==
    /\ pc.stage = "separate"
    /\ loop.idx >= 1
    /\ loop.j > Len(areas[pc.zone])
    /\ IF ~loop.moved \/ loop.iteration + 1 >= maxIterations(pc.stage)
       THEN pc' = afterCall(pc) /\ loop' = NoLoop
       ELSE /\ loop' = [loop EXCEPT !.idx = 1, !.j = 2, !.iteration = @ + 1, !.moved = FALSE]
            /\ pc' = pc
    /\ UNCHANGED <<groups, areas, topics, viewBox, returned, tzWest, pageVars, dateVars, boardVars>>

\* computeSkillTreeViewBox and the return of buildRoadmapSkillTreeLayout
ComputeViewBox ==
    /\ pc.stage = "viewBox"
    /\ LET box == computeSkillTreeViewBox(areas["upper"], areas["root"], topics["upper"], topics["root"])
       IN  /\ viewBox' = box
           /\ returned' = Append(returned, [areas |-> areas, topics |-> topics, viewBox |-> box])
    /\ pc' = [stage |-> "done", zone |-> "root"]
    /\ UNCHANGED <<groups, areas, topics, loop, tzWest, pageVars, dateVars, boardVars>>

\* the number of times the page calls buildRoadmapSkillTreeLayout with the same groups
MaxPasses == 2

\* another call of buildRoadmapSkillTreeLayout on the same groups: its arrays are made
\* and the groups of the zones filtered and sorted
Rerun ==
    /\ pc.stage = "done"
    /\ returned # <<>>
    /\ Len(returned) < MaxPasses
    /\ areas' = freshArray(areas)
    /\ topics' = freshArray(topics)
    /\ loop' = NoLoop
    /\ pc' = [stage |-> "place", zone |-> "upper"]
    /\ groups' = inputAfterSort(groups, lowerGroups \o upperGroups)
    /\ UNCHANGED <<viewBox, returned, tzWest, pageVars, dateVars, boardVars>>

\* the groups handed to the packing
MaxUpperAreas == 3
MaxTopics == 3
WideAreas == 13

\* nU upper areas and the root areas of roots, in reverse name order; each with k tasks,
\* or with one task fewer for every second area when uneven; the tasks differ in the
\* length of their topic and in their progress
groupsOf(nU, roots, k, uneven) ==
    LET TopicLengths == <<12, 40, 60>>
        Progresses == <<10, 50, 90, 30, 70>>
        UpperNames == SelectSeq(AreaNames, LAMBDA n : n \notin rootZoneAreas)
        names == SelectSeq(AreaNames, LAMBDA n : n \in roots \/ (\E i \in 1..nU : UpperNames[i] = n))
        count(p) == IF uneven /\ p % 2 = 0 THEN Max(0, k - 1) ELSE k
        taskOf(area, t) ==
            [id |-> <<area, t>>, topicLength |-> TopicLengths[(t % 3) + 1],
             progress |-> Progresses[(t % 5) + 1]]
        groupOf(area, n) == [area |-> area, tasks |-> [t \in 1..n |-> taskOf(area, t - 1)]]
    IN  [p \in DOMAIN names |-> groupOf(names[Len(names) + 1 - p], count(p))]

TreeInputs ==
    { groupsOf(nU, roots, k, uneven) :
        nU \in 0..MaxUpperAreas, roots \in SUBSET rootZoneAreas, k \in 0..MaxTopics, uneven \in BOOLEAN }
    \cup { groupsOf(WideAreas, {}, k, FALSE) : k \in 0..MaxTopics }
    \cup { groupsOf(1, {}, MaxTopics + 2, FALSE) }

TreeInit ==
    /\ markdown = "" /\ error = <<>> /\ loading = TRUE /\ visits = 0
    /\ request = [phase |-> "none", status |-> 0, text |-> ""]
    /\ tzWest = FALSE
    /\ DatesIdle
    /\ BoardIdle
    /\ groups \in TreeInputs
    /\ pc = [stage |-> "place", zone |-> "upper"]
    /\ areas = [z \in Zones |-> <<>>]
    /\ topics = [z \in Zones |-> <<>>]
    /\ loop = NoLoop
    /\ viewBox = [x |-> 0, y |-> 0, width |-> 0, height |-> 0]
    /\ returned = <<>>

TreeNext ==
    \/ PlaceArea
    \/ PlaceDone
    \/ ResolveStart
    \/ ResolveNode
    \/ ResolveDone
    \/ CompactStart
    \/ CompactStep
    \/ CompactIteration
    \/ SeparateStart
    \/ SeparatePair
    \/ SeparateIteration
    \/ ComputeViewBox
    \/ Rerun

SpecTree == TreeInit /\ [][TreeNext]_vars

\* the two layout computations, each on its own inputs
SpecLayouts == (AxisInit \/ TreeInit) /\ [][AxisNext \/ TreeNext]_vars

(***************************************************************************)
(* SreMiniProjectPage: the fetch of the README of its effect.  A step is   *)
(* a network event or the teardown, with the promise reactions it          *)
(* triggers; the state updates of one reaction are rendered together.      *)
(***************************************************************************)
\* .catch: an AbortError is dropped, another error is shown
catch_ShowAbort(name, message) ==
    /\ error' = <<message>>
    /\ loading' = FALSE

catch(name, message) ==
    IF name = "AbortError" THEN UNCHANGED <<error, loading>>
    ELSE /\ error' = <<message>>
         /\ loading' = FALSE

\* fetch or response.text() rejects: the network failed, or the connection broke while
\* the body was read
Rejects ==
    /\ request.phase \in {"fetching", "reading"}
    /\ request' = [request EXCEPT !.phase = "rejected"]
    /\ catch("TypeError", "Failed to fetch")
    /\ UNCHANGED <<markdown, visits, tzWest, dateVars, boardVars, treeVars>>

\* fetch resolves with a response: the first .then, and .catch when it throws
\* `Failed to load README (${response.status})`; response.ok is status in 200..299
FetchResolves ==
    /\ request.phase = "fetching"
    /\ \E status \in {200, 203, 206, 403, 404, 429, 500, 503} :
           IF status \in 200..299
           THEN /\ request' = [request EXCEPT !.phase = "reading", !.status = status]
                /\ UNCHANGED <<error, loading>>
           ELSE /\ request' = [request EXCEPT !.phase = "rejected", !.status = status]
                /\ catch("Error", <<"Failed to load README", status>>)
    /\ UNCHANGED <<markdown, visits, tzWest, dateVars, boardVars, treeVars>>

\* response.text() resolves with the body of the README: the second .then
TextResolves ==
    /\ request.phase = "reading"
    /\ \E text \in {"", "# README", "![logo](./docs/logo.png)", "[guide](docs/guide.md)"} :
           /\ markdown' = text
           /\ request' = [request EXCEPT !.phase = "fulfilled", !.text = text]
    /\ loading' = FALSE
    /\ UNCHANGED <<error, visits, tzWest, dateVars, boardVars, treeVars>>

\* the cleanup of the effect: controller.abort() rejects a pending fetch or body read
\* with an AbortError, and the component is gone
Teardown ==
    /\ request.phase \in {"fetching", "reading", "fulfilled", "rejected"}
    /\ IF request.phase \in {"fetching", "reading"}
       THEN /\ request' = [request EXCEPT !.phase = "aborted"]
            /\ catch("AbortError", "The user aborted a request.")
       ELSE /\ request' = [request EXCEPT !.phase = "unmounted"]
            /\ UNCHANGED <<error, loading>>
    /\ UNCHANGED <<markdown, visits, tzWest, dateVars, boardVars, treeVars>>

\* the number of times the page is opened
MaxVisits == 3

\* the route shows the page again: a new component with the initial state and a new fetch
PageMount ==
    /\ request.phase \in {"aborted", "unmounted"}
    /\ visits < MaxVisits
    /\ visits' = visits + 1
    /\ markdown' = ""
    /\ error' = <<>>
    /\ loading' = TRUE
    /\ request' = [phase |-> "fetching", status |-> 0, text |-> ""]
    /\ UNCHANGED <<tzWest, dateVars, boardVars, treeVars>>

PageInit ==
    /\ tzWest = FALSE
    /\ DatesIdle
    /\ BoardIdle
    /\ TreeIdle
    /\ markdown = ""
    /\ error = <<>>
    /\ loading = TRUE
    /\ request = [phase |-> "fetching", status |-> 0, text |-> ""]
    /\ visits = 1

PageNext ==
    \/ Rejects
    \/ FetchResolves
    \/ TextResolves
    \/ Teardown
    \/ PageMount

SpecPage == PageInit /\ [][PageNext]_vars

(***************************************************************************)
(* Claims about the skill tree.                                            *)
(***************************************************************************)

\* the packing has returned and no other pass has started
passDone == pc.stage = "done" /\ returned # <<>>

\* C1: after the final layout pass, no two topic label boxes of the same area
\* cluster intersect as rectangles.
C1_ClusterLabelsDisjoint ==
    LET \* two label boxes share a point of their interiors
        labelsIntersect(a, b) ==
            /\ a.boxX < b.boxX + b.boxWidth
            /\ b.boxX < a.boxX + a.boxWidth
            /\ a.boxY < b.boxY + b.boxHeight
            /\ b.boxY < a.boxY + a.boxHeight
    IN  passDone =>
            \A z \in Zones : \A i, j \in DOMAIN topics[z] :
                (i < j /\ topics[z][i].clusterId = topics[z][j].clusterId)
                    => ~labelsIntersect(topics[z][i], topics[z][j])

\* C2: after separateAreaNodes has run on a zone, no two area anchors of the zone
\* are both closer than 202 px horizontally and closer than 52 px vertically.
C2_AnchorsKeepTheirGaps ==
    LET \* separateAreaNodes has run on the arrays of zone z in the pass under way
        separated(z) ==
            \/ pc.stage \in {"resolveAgain", "viewBox"}
            \/ passDone
            \/ (pc.stage = "separate" /\ pc.zone = "root" /\ z = "upper")
    IN  \A z \in Zones : separated(z) =>
            \A i, j \in DOMAIN areas[z] :
                i < j => ~(/\ Abs(areas[z][i].x - areas[z][j].x) < Px(202)
                           /\ Abs(areas[z][i].y - areas[z][j].y) < Px(52))

\* C3: every view window returned lies inside the canvas: its width and height are
\* at most 1720 and 1220, its corner is not negative, and it ends inside the canvas.
C3_ViewBoxInsideCanvas ==
    \A i \in DOMAIN returned :
        LET v == returned[i].viewBox
        IN  /\ v.width <= width /\ v.height <= height
            /\ v.x >= 0 /\ v.y >= 0
            /\ v.x + v.width <= width /\ v.y + v.height <= height

\* a layout whose content reaches below the initial extent: the window is smaller
\* than the canvas and was moved up to end at the canvas bottom
C3_Witness ==
    /\ passDone
    /\ topics["root"] # <<>>
    /\ viewBox.height < height
    /\ viewBox.y > 0
    /\ viewBox.y + viewBox.height = height

C5_EndPositionNotBeforeStart ==
    posDone => RLe(calc.startPos, calc.endPos)

\* an event that is the single day Feb 29: its end + 1 day is in the next month
C5_Witness ==
    /\ posDone
    /\ evStart = evEnd /\ evEnd.m = 2 /\ evEnd.d = 29 /\ ~tzWest
    /\ RLt(calc.startPos, calc.endPos)

\* C6: the axis model has totalQuarters = (maxYear - minYear + 1) * 4, and
\* totalQuarters is at least the quarters spanned by the data, in every mode.
C6_TotalQuartersCoversData ==
    /\ model.totalQuarters = (model.maxYear - model.minYear + 1) * 4
    /\ model.totalQuarters >= (baseRange.maxYear - baseRange.minYear + 1) * 4

C6_Witness ==
    /\ mounted /\ mode = "today"
    /\ now.year > baseRange.maxYear
    /\ baseRange.maxYear > baseRange.minYear
    /\ model.totalQuarters > dataQuarters

\* C7 (as claimed): a rendered event whose bar's right edge lies left of scrollLeft
\* has isPastOverflow = false and no visible label.
C7_LeftOfWindowNoPastOverflow ==
    \A idx \in DOMAIN ordered :
        (Bar(idx).rendered /\ Bar(idx).rawRightPx < scrollLeft * Bar(idx).den)
            => (~Row(idx).isPastOverflow /\ ~Row(idx).isLabelVisible)

\* C7 (amended): a rendered event whose bar's right edge lies left of scrollLeft has
\* no visible label, and its past-overflow flag is set whenever its raw left edge
\* is at most 2 px right of its raw right edge.
C7_LeftOfWindowNoLabel ==
    \A idx \in DOMAIN ordered :
        (Bar(idx).rendered /\ Bar(idx).rawRightPx < scrollLeft * Bar(idx).den)
            => /\ ~Row(idx).isLabelVisible
               /\ (Bar(idx).rawLeftPx <= Bar(idx).rawRightPx + 2 * Bar(idx).den
                     => Row(idx).isPastOverflow)

C7_Witness ==
    /\ mounted /\ viewportWidth > 0
    /\ \E idx \in DOMAIN ordered :
           /\ Bar(idx).rendered
           /\ Bar(idx).rawRightPx < scrollLeft * Bar(idx).den
           /\ Row(idx).isPastOverflow
           /\ ~Row(idx).isLabelVisible

\* C8: a date whose year lies in [minYear, maxYear] has its quarter position in
\* [0, totalQuarters], and so has end + 1 day for an end date in that year range.
C8_PositionWithinAxis ==
    posDone =>
        \A maxYear \in argMinYear .. (BaseYear + YearSpan + 1) :
            LET tq == axisOf(argMinYear, maxYear).totalQuarters
                sd == ParseDate(evStart, tzWest)
                ed == ParseDate(evEnd, tzWest)
            IN  /\ sd.year \in argMinYear..maxYear
                      => (calc.startPos.n >= 0 /\ calc.startPos.n <= tq * calc.startPos.d)
                /\ ed.year \in argMinYear..maxYear
                      => (calc.endPos.n >= 0 /\ calc.endPos.n <= tq * calc.endPos.d)

\* an event ending on December 31 of minYear = maxYear: its bar ends exactly at totalQuarters
C8_Witness ==
    /\ posDone /\ ~tzWest
    /\ evEnd.y = argMinYear /\ evEnd.m = 12 /\ evEnd.d = 31
    /\ RIsInt(calc.endPos, axisOf(argMinYear, argMinYear).totalQuarters)

\* C9 (as claimed): the quarter index of a date string of January 1 .. March 31 of
\* minYear is 0, and the date strings of one calendar quarter share one index.
C9_FirstQuarterIndexZero ==
    idxDone =>
        /\ (evStart.y = argMinYear /\ evStart.m \in 1..3) => calc.startIdx = 0
        /\ (evEnd.y = argMinYear /\ evEnd.m \in 1..3) => calc.endIdx = 0
        /\ (evStart.y = evEnd.y /\ (evStart.m - 1) \div 3 = (evEnd.m - 1) \div 3)
               => calc.startIdx = calc.endIdx

\* C10: floor(quarterPosition) = quarterIndex for every date, and on the first day
\* of a quarter quarterPosition equals quarterIndex exactly.
C10_PositionAgreesWithIndex ==
    (posDone /\ idxDone) =>
        LET sd == ParseDate(evStart, tzWest)
            nd == addDays(ParseDate(evEnd, tzWest), 1)
        IN  /\ RFloor(calc.startPos) = calc.startIdx
            /\ RFloor(calc.endPos) = quarterIndexFromModel(nd, argMinYear)
            /\ (sd.date = 1 /\ sd.month % 3 = 0) => RIsInt(calc.startPos, calc.startIdx)
            /\ (nd.date = 1 /\ nd.month % 3 = 0)
                   => RIsInt(calc.endPos, quarterIndexFromModel(nd, argMinYear))

\* a start on April 1 before minYear: a negative index, met exactly
C10_Witness ==
    /\ posDone /\ idxDone /\ ~tzWest
    /\ evStart.m = 4 /\ evStart.d = 1 /\ evStart.y < argMinYear
    /\ calc.startIdx < 0
    /\ RIsInt(calc.startPos, calc.startIdx)

(***************************************************************************)
(* Claims about the axis of the board for any event list.                  *)
(***************************************************************************)
\* C11: for an empty event list, or one with a date that does not parse, minYear,
\* maxYear, totalQuarters, the fit quarterWidth and the canvas width are finite numbers
C11_AxisFiniteWithoutData ==
    calc.stage = "done" /\ (items = <<>> \/ \E i \in DOMAIN items : InvalidDate \in {items[i].start, items[i].end})
    => /\ memo.model.minYear # NaN
       /\ memo.model.maxYear # NaN
       /\ memo.model.totalQuarters # NaN
       /\ calc.quarterWidth # NaN
       /\ calc.canvasWidth # NaN

(***************************************************************************)
(* Claims about the handlers and the rows of the board.                    *)
(***************************************************************************)
\* C12: in every reachable state of the board quarterWidth lies in [24, 140], and mode
\* is the mode of the last handler that ran (fit before and after the mount): the
\* width is the one that handler set, and the last callback a handler has left in
\* the animation-frame queue is the callback of that mode
C12_WidthInRangeModeOfLastHandler ==
    /\ quarterWidth \in 24..140
    /\ mode \in {"multi-year", "today", "fit"}
    /\ (~mounted => mode = "fit" /\ quarterWidth = 58)
    /\ (mode = "multi-year" => quarterWidth = 58)
    /\ (mode = "today" => quarterWidth = 92)
    /\ (mounted /\ mode = "fit" =>
           \E w \in ClientWidths : quarterWidth = Max(24, Min(140, w \div dataQuarters)))
    /\ \A k \in DOMAIN raf :
           (raf[k].kind # "focus" /\ \A h \in (k + 1)..Len(raf) : raf[h].kind = "focus")
               => mode = CASE raf[k].kind = "center" -> "multi-year"
                           [] raf[k].kind = "today" -> "today"
                           [] raf[k].kind = "fit" -> "fit"

\* setFit has run in a narrow container and has clamped the width at 24
C12_Witness ==
    /\ mounted /\ mode = "fit" /\ raf = <<>>
    /\ quarterWidth = 24
    /\ clientWidth \div dataQuarters < 24

\* C13: in fit mode the axis model spans exactly the data's years, without padding:
\* model.minYear is the earliest event year and model.maxYear the latest event year
C13_FitAxisSpansDataYears ==
    mounted /\ mode = "fit" =>
        /\ model.minYear = baseRange.minYear
        /\ model.maxYear = baseRange.maxYear

\* C14 (as claimed): for every rendered event the past-overflow flag is true exactly
\* when the raw left pixel edge of its bar is left of the scroll offset, and the
\* future-overflow flag exactly when its raw right pixel edge exceeds
\* scrollLeft + viewportWidth
C14_FlagsAtRawEdges ==
    \A idx \in DOMAIN ordered :
        Bar(idx).rendered =>
            /\ Row(idx).isPastOverflow <=> Bar(idx).rawLeftPx < scrollLeft * Bar(idx).den
            /\ Row(idx).isFutureOverflow
                 <=> Bar(idx).rawRightPx > (scrollLeft + viewportWidth) * Bar(idx).den

\* C14 (amended): the raw edges of a bar are inset by 2 px from the event's positions
\* startPos * quarterWidth and endPos * quarterWidth, and the flags compare those
\* positions: past overflow exactly when startPos * quarterWidth < scrollLeft
\* (rawLeftPx < scrollLeft + 2), future overflow exactly when
\* endPos * quarterWidth > scrollLeft + viewportWidth
\* (rawRightPx > scrollLeft + viewportWidth - 2)
C14_FlagsAtEventPositions ==
    \A idx \in DOMAIN ordered :
        Bar(idx).rendered =>
            /\ Row(idx).isPastOverflow
                 <=> Bar(idx).startPos * quarterWidth < scrollLeft * Bar(idx).den
            /\ Row(idx).isFutureOverflow
                 <=> Bar(idx).endPos * quarterWidth > (scrollLeft + viewportWidth) * Bar(idx).den

\* a bar whose raw left edge is inside the window, less than 2 px from the scroll
\* offset, with the past-overflow flag set
C14_Witness ==
    /\ mounted /\ viewportWidth > 0
    /\ \E idx \in DOMAIN ordered :
           /\ Bar(idx).rendered
           /\ Row(idx).isPastOverflow
           /\ Bar(idx).rawLeftPx >= scrollLeft * Bar(idx).den

\* C15: whenever the label of an event is drawn, its absolute horizontal position
\* leftPx + labelLeft lies in [scrollLeft + margin, scrollLeft + viewportWidth - 180],
\* with margin 34 for a past-overflowing bar and 10 otherwise
C15_LabelInsideVisibleSlice ==
    \A idx \in DOMAIN ordered :
        Row(idx).isLabelVisible =>
            LET b == Bar(idx)
                margin == IF b.hasPastOverflow THEN 34 ELSE 10
            IN  /\ b.leftPx + b.labelLeft >= (scrollLeft + margin) * b.den
                /\ b.leftPx + b.labelLeft <= (scrollLeft + viewportWidth - LabelWidth) * b.den

\* C16: the edges of a bar are clamped to [0, totalQuarters], and an event is rendered
\* exactly when [startPos, endPos] and [0, totalQuarters] share an interval of
\* positive length; an event outside the axis renders nothing
C16_RenderedIffInsideAxis ==
    calc.row.totalQuarters > 0 =>
        LET den == calc.row.den
            sP == calc.startPos.n * calc.endPos.d
            eP == calc.endPos.n * calc.startPos.d
            total == calc.row.totalQuarters * den
        IN  /\ calc.row.rendered <=> (sP < eP /\ sP < total /\ eP > 0)
            /\ calc.row.rendered =>
                  /\ 0 <= calc.row.clampedStart
                  /\ calc.row.clampedStart < calc.row.clampedEnd
                  /\ calc.row.clampedEnd <= total
                  /\ calc.row.clampedStart \in {0, sP}
                  /\ calc.row.clampedEnd \in {total, eP}

\* an event that starts before the axis and ends inside it: its left edge is clamped to 0
C16_Witness ==
    /\ calc.row.totalQuarters > 0
    /\ calc.startPos.n < 0
    /\ calc.row.rendered
    /\ calc.row.clampedStart = 0

\* the distance from now to the interval [startPos, endPos] of row i of a list of
\* well-formed events: the largest of startPos - nowPos, nowPos - endPos and 0
C17_Distance(i) ==
    LET minYear == memo.model.minYear[1]
        nowPos == quarterPositionFromModel(now, minYear)
        startPos == quarterPositionFromModel(ParseDate(memo.ordered[i].start, tzWest), minYear)
        endPos == quarterPositionFromModel(addDays(ParseDate(memo.ordered[i].end, tzWest), 1), minYear)
        before == Rat(startPos.n * nowPos.d - nowPos.n * startPos.d, startPos.d * nowPos.d)
        after == Rat(nowPos.n * endPos.d - endPos.n * nowPos.d, nowPos.d * endPos.d)
        far == IF RLe(before, after) THEN after ELSE before
    IN  IF RLe(far, Rat(0, 1)) THEN Rat(0, 1) ELSE far

\* C17: nearestEventRowIndex is the index, in ascending-start order, of an event at
\* minimal distance from now to its interval (0 when now is inside it), the lowest
\* such index among ties, and -1 exactly when there is no event
C17_NearestIsFirstMinimum ==
    (calc.stage # "props" /\ \A i \in DOMAIN items : InvalidDate \notin {items[i].start, items[i].end})
    => LET nearest == memo.nearestEventRowIndex
       IN  /\ nearest = -1 <=> memo.ordered = <<>>
           /\ memo.ordered # <<>> =>
                 /\ nearest + 1 \in DOMAIN memo.ordered
                 /\ \A j \in DOMAIN memo.ordered : RLe(C17_Distance(nearest + 1), C17_Distance(j))
                 /\ \A j \in 1..nearest : RLt(C17_Distance(nearest + 1), C17_Distance(j))
                 /\ \A j \in 1..(Len(memo.ordered) - 1) :
                        IsoLe(memo.ordered[j].start, memo.ordered[j + 1].start)

\* two events at the same distance from now, neither containing it: the first one is taken
C17_Witness ==
    /\ calc.stage # "props"
    /\ Len(memo.ordered) = 2
    /\ \A i \in DOMAIN items : InvalidDate \notin {items[i].start, items[i].end}
    /\ REq(C17_Distance(1), C17_Distance(2))
    /\ RLt(Rat(0, 1), C17_Distance(1))
    /\ memo.nearestEventRowIndex = 0

(***************************************************************************)
(* Claims about the loops and the inputs of the skill tree.                *)
(***************************************************************************)
\* the position of a pass: its number, its stage and zone, and the counters of its loop
C18_Position ==
    <<Len(returned),
      CASE pc.stage = "place" -> 1 [] pc.stage = "resolve" -> 2 [] pc.stage = "compact" -> 3
        [] pc.stage = "separate" -> 4 [] pc.stage = "resolveAgain" -> 5
        [] pc.stage = "viewBox" -> 6 [] pc.stage = "done" -> 7,
      IF pc.zone = "upper" THEN 1 ELSE 2,
      loop.iteration, loop.idx, loop.j>>

\* C18: the loops of the engine end for every input: compactClustersTowardCore runs at
\* most 320 iterations, separateAreaNodes at most 64, the searches probe a fixed number
\* of offsets, and a pass that has started goes on to return its layout, also when a
\* cap was reached: the counters stay in the range where a step of the loop or its
\* exit is possible, and every step moves the position of the pass forward
C18_LoopsTerminate ==
    /\ [](/\ pc.stage = "compact" => loop.iteration < 320
          /\ pc.stage = "separate" => loop.iteration < 64
          /\ pc.stage \in {"resolve", "resolveAgain"} => loop.idx <= Len(loop.ordered) + 1
          /\ pc.stage = "compact" => loop.idx <= Len(loop.ordered) + 1
          /\ pc.stage = "separate" => loop.j <= Len(areas[pc.zone]) + 1
          /\ Len(searchOffsets(240, 6)) = 81
          /\ Len(searchOffsets(112, 8)) = 29
          /\ pc.stage = "place" => loop.idx <= Len(zoneGroups(pc.zone))
          /\ pc.stage \in {"resolve", "resolveAgain", "compact", "separate"}
               => (loop = NoLoop \/ loop.idx >= 1))
    /\ [][pc.stage # "done" =>
            \E k \in 1..6 : /\ C18_Position[k] < C18_Position'[k]
                             /\ \A h \in 1..(k - 1) : C18_Position[h] = C18_Position'[h]]_vars

\* separateAreaNodes ends its 64th sweep with nodes still moved
C18_Witness ==
    /\ pc.stage = "separate"
    /\ loop.iteration = 63
    /\ loop.j > Len(areas[pc.zone])
    /\ loop.moved

\* C19: the radius of a leaf does not decrease with progress: radius(p1) <= radius(p2)
\* for all p1 <= p2 in 0..100, for radius(p) = 10 + round(p / 26), and the radii of the
\* leaves of a returned layout are ordered like their progress values
C19_RadiusMonotoneInProgress ==
    passDone =>
        /\ \A p1 \in 0..100 : \A p2 \in p1..100 : leafRadius(p1) <= leafRadius(p2)
        /\ \A z \in Zones : \A i \in DOMAIN topics[z] : \A j \in DOMAIN topics[z] :
               /\ topics[z][i].radius \in Px(10) .. Px(14)
               /\ topics[z][i].progress <= topics[z][j].progress
                     => topics[z][i].radius <= topics[z][j].radius

\* a returned layout of one area whose five leaves have progress 10, 50, 90, 30 and 70
C19_Witness ==
    /\ passDone
    /\ Len(areas["upper"]) = 1
    /\ { topics["upper"][i].progress : i \in DOMAIN topics["upper"] } = {10, 50, 90, 30, 70}
    /\ { topics["upper"][i].radius : i \in DOMAIN topics["upper"] } = {Px(10), Px(11), Px(12), Px(13)}

C21_FetchLifecycle ==
    /\ [](/\ request.phase = "fetching" => (loading /\ error = <<>> /\ markdown = "")
          /\ request.phase = "reading" => (loading /\ error = <<>> /\ markdown = "")
          /\ request.phase = "rejected" => (~loading /\ error # <<>> /\ markdown = "")
          /\ request.phase = "fulfilled" => (~loading /\ error = <<>> /\ markdown = request.text)
          /\ request.phase = "aborted" => (loading /\ error = <<>> /\ markdown = "")
          /\ ~(loading /\ error # <<>>))
    /\ [][request'.phase \in {"aborted", "unmounted"} => UNCHANGED <<markdown, error, loading>>]_vars

\* the page was closed while the body of an OK response was read
C21_Witness ==
    /\ request.phase = "aborted"
    /\ request.status = 200
    /\ visits = 2

C23_Bounds(z, c) ==
    getClusterBounds(areas[z][c], SelectSeq(topics[z], LAMBDA leaf : leaf.clusterId = areas[z][c].key))

\* clusters a and b of zone z are not separated by more than clusterGap = 8
C23_Collide(z, a, b) ==
    LET A == C23_Bounds(z, a)
        B == C23_Bounds(z, b)
    IN  /\ A.maxX + Px(8) >= B.minX
        /\ B.maxX + Px(8) >= A.minX
        /\ A.maxY + Px(8) >= B.minY
        /\ B.maxY + Px(8) >= A.minY

\* C23: compaction never creates a cluster collision: the box compaction keeps for a
\* cluster is its current bounding box, and two clusters of a zone that are within
\* clusterGap (8) of each other after a step of compaction were so before it and
\* neither was moved by it; so at the end of compaction two clusters of which one has
\* moved are separated by more than the gap
C23_NoCollisionCreated ==
    /\ []((pc.stage = "compact" /\ loop.bounds # <<>>) =>
             \A c \in DOMAIN areas[pc.zone] : loop.bounds[c] = C23_Bounds(pc.zone, c))
    /\ [][\A z \in Zones : (pc.stage = "compact" /\ pc.zone = z /\ <<areas, topics>>' # <<areas, topics>>) =>
             \A a, b \in DOMAIN areas[z] :
                 (a # b /\ C23_Collide(z, a, b)') =>
                     /\ C23_Collide(z, a, b)
                     /\ areas'[z][a] = areas[z][a]
                     /\ areas'[z][b] = areas[z][b]]_vars

\* a step towards the root is refused to a cluster only because its box would come
\* within the gap of the box of another cluster, after a cluster has moved
C23_Witness ==
    /\ pc.stage = "compact"
    /\ loop.idx \in 1..Len(loop.ordered)
    /\ loop.moved
    /\ LET c == loop.ordered[loop.idx]
       IN  /\ ~compactMove(pc.zone, c, areas[pc.zone], loop.bounds).accepted
           /\ compactMove(pc.zone, c, areas[pc.zone], [i \in {c} |-> loop.bounds[c]]).accepted

\* the square of the distance from the root to the bounding box of cluster c of zone z
\* of layout L
C24_SquaredDistance(L, z, c) ==
    LET area == L.areas[z][c]
        box == getClusterBounds(area, SelectSeq(L.topics[z], LAMBDA leaf : leaf.clusterId = area.key))
        nearX == IF rootX < box.minX THEN box.minX ELSE IF rootX > box.maxX THEN box.maxX ELSE rootX
        nearY == IF rootY < box.minY THEN box.minY ELSE IF rootY > box.maxY THEN box.maxY ELSE rootY
    IN  (rootX - nearX) * (rootX - nearX) + (rootY - nearY) * (rootY - nearY)

\* C24: in a returned layout no cluster bounding box (area box and the boxes and
\* circles of its leaves) intersects the disk of radius 98 around the root
C24_KeepOutClear ==
    \A k \in DOMAIN returned : \A z \in Zones : \A c \in DOMAIN returned[k].areas[z] :
        C24_SquaredDistance(returned[k], z, c) > Px(98) * Px(98)

\* C25: in a returned layout every area anchor of the upper zone has
\* y <= root.y - zoneGap (106) and every area anchor of the root zone has
\* y >= root.y + zoneGap (84)
C25_ZoneSidedness ==
    \A k \in DOMAIN returned :
        /\ \A a \in DOMAIN returned[k].areas["upper"] :
               returned[k].areas["upper"][a].y <= rootY - Px(106)
        /\ \A a \in DOMAIN returned[k].areas["root"] :
               returned[k].areas["root"][a].y >= rootY + Px(84)

\* a layout is returned with three areas of at most one topic in each zone (the band of the
\* third root area is then placed 72 px nearer to the root by findBandShift), and with
\* an area that separateAreaNodes has stopped at the limit of its zone
C25_Witness ==
    /\ passDone
    /\ \A z \in Zones : Len(areas[z]) >= 3
    /\ \A g \in DOMAIN groups : Len(groups[g].tasks) <= 1
    /\ \E z \in Zones : \E a \in DOMAIN areas[z] :
           areas[z][a].y = (IF z = "upper" THEN rootY - Px(106 + 12) ELSE rootY + Px(84 + 12))

\* C26: after band placement the bands [bandTop, bandBottom] of two areas on the same
\* side of the same zone do not overlap
C26_BandsDisjoint ==
    pc.stage = "place" =>
        \A z \in Zones : \A a, b \in DOMAIN areas[z] :
            (a # b /\ areas[z][a].side = areas[z][b].side) =>
                ~(areas[z][a].bandBottom > areas[z][b].bandTop /\ areas[z][a].bandTop < areas[z][b].bandBottom)

\* the label box of every leaf of the sequence is inside the band bounds of the leaf
C27_InBand(leaves) ==
    \A t \in DOMAIN leaves : leaves[t].minY <= leaves[t].boxY /\ leaves[t].boxY <= leaves[t].maxY

\* C27: every topic label box stays within its band bounds: minY <= boxY <= maxY for
\* every node resolveLeafOverlap has processed, for every topic once the first
\* resolveLeafOverlap of its zone has returned (through compaction, separation and the
\* second resolveLeafOverlap), and in the returned layout
C27_LabelsInBand ==
    /\ pc.stage \in {"resolve", "resolveAgain"} =>
           \A i \in DOMAIN loop.ordered :
               i < loop.idx => C27_InBand(<<topics[pc.zone][loop.ordered[i]]>>)
    /\ pc = [stage |-> "resolve", zone |-> "root"] => C27_InBand(topics["upper"])
    /\ pc.stage \in {"compact", "separate", "resolveAgain", "viewBox", "done"} =>
           \A z \in Zones : C27_InBand(topics[z])
    /\ \A k \in DOMAIN returned : \A z \in Zones : C27_InBand(returned[k].topics[z])

\* the second resolveLeafOverlap has just given a node the fallback position, the clamped
\* base position, at which it is not free: the step search and the band scan have
\* failed; the first area of the zone has been moved from where it was placed
C27_Witness ==
    /\ pc.stage = "resolveAgain"
    /\ loop.idx \in 2..(Len(loop.ordered) + 1)
    /\ LET z == pc.zone
           node == topics[z][loop.ordered[loop.idx - 1]]
       IN  /\ node.boxY = Max(node.minY, Min(node.maxY, node.baseBoxY))
           /\ ~isYFreeForNode(node.boxY, node, SubSeq(loop.occupied, 1, loop.idx - 2),
                              buildAreaLaneBlockers(areas[z], node.clusterId), Px(12))
           /\ areas[z][1].y # placedArea(z, 0, [sd \in {-1, 1} |-> <<>>]).area.y

\* area b is area a translated by (dx, dy), band included
C28_AreaTranslated(a, b, dx, dy) ==
    /\ b.x = a.x + dx /\ b.y = a.y + dy
    /\ b.bandTop = a.bandTop + dy /\ b.bandBottom = a.bandBottom + dy
    /\ b.key = a.key /\ b.area = a.area /\ b.side = a.side

\* leaf m is leaf l translated by (dx, dy): point, area anchor, box, box anchor, text
\* position and band bounds, with its sizes kept
C28_LeafTranslated(l, m, dx, dy) ==
    /\ m.x = l.x + dx /\ m.y = l.y + dy
    /\ m.areaX = l.areaX + dx /\ m.areaY = l.areaY + dy
    /\ m.boxX = l.boxX + dx /\ m.boxY = l.boxY + dy
    /\ m.baseBoxY = l.baseBoxY + dy /\ m.boxCenterY = l.boxCenterY + dy
    /\ m.boxAnchorX = l.boxAnchorX + dx /\ m.textX = l.textX + dx
    /\ m.minY = l.minY + dy /\ m.maxY = l.maxY + dy
    /\ m.boxWidth = l.boxWidth /\ m.boxHeight = l.boxHeight /\ m.radius = l.radius
    /\ m.id = l.id /\ m.clusterId = l.clusterId /\ m.side = l.side /\ m.zone = l.zone

\* C28: a cluster moves as one rigid body: a step of compaction translates the anchor,
\* the band and every leaf of the cluster it accepts the step for by the same (dx, dy),
\* a shift of the separation translates them by the same vertical amount and by
\* nothing horizontally, and the areas and leaves of every other cluster (the other
\* zone included) are as they were
C28_RigidClusters ==
    [][pc.stage \in {"compact", "separate"} =>
         \A z \in Zones :
             /\ DOMAIN areas'[z] = DOMAIN areas[z]
             /\ DOMAIN topics'[z] = DOMAIN topics[z]
             /\ \A c \in DOMAIN areas[z] :
                    \E d \in {<<areas'[z][c].x - areas[z][c].x, areas'[z][c].y - areas[z][c].y>>} :
                        /\ C28_AreaTranslated(areas[z][c], areas'[z][c], d[1], d[2])
                        /\ \A t \in DOMAIN topics[z] :
                               topics[z][t].clusterId = areas[z][c].key =>
                                   C28_LeafTranslated(topics[z][t], topics'[z][t], d[1], d[2])
                        /\ pc.stage = "separate" => d[1] = 0
                        /\ d # <<0, 0>> =>
                               /\ z = pc.zone
                               /\ pc.stage = "compact" => c = loop.ordered[loop.idx]
                               /\ pc.stage = "separate" => c \in {loop.idx, loop.j}]_vars

\* compaction has just accepted a step for the upper cluster farthest from the root,
\* which has two or more leaves and is not where placement put it sideways; the zone
\* has another cluster
C28_Witness ==
    /\ pc = [stage |-> "compact", zone |-> "upper"]
    /\ loop.idx = 2
    /\ loop.moved
    /\ Len(areas["upper"]) >= 2
    /\ \A g \in DOMAIN groups : Len(groups[g].tasks) >= 2
    /\ LET c == loop.ordered[1]
       IN  areas["upper"][c].x #
               polarPoint(rootX, rootY, 264 + (c \div 2) * 34,
                          buildCenteredAngles(-90, 72, Len(areas["upper"]))[c]).x

\* the square of the distance from the anchor of area a to the root
C29_SquaredRadius(a) == (rootX - a.x) * (rootX - a.x) + (rootY - a.y) * (rootY - a.y)

\* C29: every step compaction accepts brings the anchor of the cluster strictly nearer
\* to the root and not nearer than minRadius (124 in the upper zone, 92 in the root
\* zone), and a cluster whose anchor is within minRadius + 1 of the root is not moved
C29_StepsTowardRoot ==
    [][pc.stage = "compact" =>
         \A z \in Zones : \A c \in DOMAIN areas[z] :
             (c \in DOMAIN areas'[z] /\ areas'[z][c] # areas[z][c]) =>
                 /\ C29_SquaredRadius(areas'[z][c]) < C29_SquaredRadius(areas[z][c])
                 /\ C29_SquaredRadius(areas'[z][c]) >=
                        Px(IF z = "upper" THEN 124 ELSE 92) * Px(IF z = "upper" THEN 124 ELSE 92)
                 /\ C29_SquaredRadius(areas[z][c]) >
                        Px(IF z = "upper" THEN 125 ELSE 93) * Px(IF z = "upper" THEN 125 ELSE 93)]_vars

\* compaction has just accepted a step of less than 30 px that has brought an upper
\* cluster to minRadius from the root, where it will stay
C29_Witness ==
    /\ pc = [stage |-> "compact", zone |-> "upper"]
    /\ loop.idx = 2
    /\ loop.moved
    /\ C29_SquaredRadius(areas["upper"][loop.ordered[1]]) <= Px(125) * Px(125)

====
